---- MODULE Spec2Model ----
(***************************************************************************)
(* Credential and session security of the classroom-borrowing backend:     *)
(* the password-reset protocol of routes/password.rs (forgot_password,     *)
(* verify_code, reset_password) over Redis and the user table, and the     *)
(* cache-aside identity lookup of login_system.rs (authenticate,           *)
(* get_user).                                                              *)
(*                                                                         *)
(* Every handler is an async fn: each .await on Redis, the database, the   *)
(* hasher or the mailer is a suspension point, so a handler is a sequence  *)
(* of atomic steps, one per awaited call, and steps of different requests  *)
(* interleave.  Time is in seconds (chrono timestamps, Redis EX).          *)
(***************************************************************************)
EXTENDS Integers, Sequences, FiniteSets, TLC

\* ------------------------------------------------------------- bounds
NProcs == 2
MaxCode == 2
MaxToken == 2
MaxSalt == 1
MaxNow == 1200
MaxCacheNow == 150
MaxConfig == 2
MaxPolls == 3
WorkerThreads == 1
MaxYear == 2026
MaxTime == 3
MaxPurpose == 2
MaxAttempts == 3

\* ------------------------------------------------- program constants
CODE_TTL_SECONDS == 600
TOKEN_TTL_SECONDS == 900
REDIS_EXPIRY_SECONDS == 60

Procs == 1..NProcs
Emails == {"alice", "nobody"}
Passwords == {"old-pw", "new-pw"}
\* gen_6_digit_code draws a random string: any code may come out, twice too.
Codes == 1..MaxCode
\* nanoid!(32) draws 32 characters of a 64-letter alphabet: tokens are
\* modelled as never repeating, the k-th token issued being k.
Tokens == 1..MaxToken
Salts == 1..MaxSalt
\* The clock is observed every TickStep seconds.
TickStep == CODE_TTL_SECONDS
\* Where the cache's expiry is at stake, every CacheStep seconds.
CacheStep == REDIS_EXPIRY_SECONDS \div 2

VARIABLES
    now,        \* the clock (Utc::now().timestamp(), and Redis's clock)
    dbUser,     \* the user table: email -> row
    codeRec,    \* Redis key password_reset:code:{email}
    tokenRec,   \* Redis key password_reset:token:{email}
    userCache,  \* Redis key user_{id}, indexed by the account's email
    issued,     \* how many reset tokens nanoid has produced
    proc,       \* the requests in flight: position and locals of each
    outbox,     \* history: what send_email delivered, <<to, code>>
    written,    \* history: the last two codes written per email, and when issued
    spent,      \* history: a Verify returned 200 since the last code write
    retired,    \* history: tokens issued when the last Request returned 200
    lastReset,  \* history: new_password of the last Reset that returned 200
    cachedAt,   \* history: when user_{id} was last written or hit, -1 if never
    GLOBAL_ARGON2,  \* the hasher's OnceLock: Unset, or the configuration held
    polls,          \* how often the runtime has polled a task unrelated to the hasher
    reservation,    \* the reservation table: one row
    keyLog,         \* the key transaction log table: one row
    student_id,     \* the argument of check_student_id
    current_year,   \* Local::now().year()
    valid,          \* what check_student_id returned
    attempts,       \* history: Verifies that failed since the last code write
    tried,          \* history: the token of the last Reset that failed after its check
    granted         \* history: what each request in flight has proved, if anything

\* The state outside the reset protocol and the login.
aux == <<GLOBAL_ARGON2, polls, reservation, keyLog, student_id, current_year,
         valid, attempts, tried, granted>>

vars == <<now, dbUser, codeRec, tokenRec, userCache, issued, proc,
          outbox, written, spent, retired, lastReset, cachedAt, aux>>

stores == <<dbUser, codeRec, tokenRec, userCache>>

\* ------------------------------------------------------------ values
NoHash == [pw |-> "", salt |-> 0]
NoRow == [exists |-> FALSE, password |-> NoHash]
Absent == [live |-> FALSE, json |-> <<>>, ttl |-> 0]

NoCode == [code |-> 0, at |-> 0]

\* GLOBAL_ARGON2 before its first set; the configurations are 1..MaxConfig,
\* and BadConfig has parameters Params::new refuses.
Unset == 0
Configs == 1..MaxConfig
BadConfig == MaxConfig + 1

\* The users of the reservation and key routes, and the statuses of a
\* reservation.
Users == {"alice", "bob"}
Statuses == {"Pending", "Approved", "Rejected"}

\* The reservation the routes work on: alice's, pending.
FirstReservation ==
    [exists |-> TRUE, user_id |-> "alice", status |-> "Pending",
     reject_reason |-> 0, purpose |-> 0]

\* The log of a key lent out and not yet returned; None is 0, the
\* timestamps are 1..MaxTime.
FirstLog ==
    [exists |-> TRUE, deadline |-> 2, returned_at |-> 0, on_time |-> FALSE]

\* A request slot: where the handler stands (pc), the request body (email,
\* code, token, pw, confirm), the handler's locals (now, expires_at, hash)
\* and its answer (status and body, or result; note names the branch taken).
\* In the reservation routes email is the session's user, code the purpose
\* of the body and review the status of the review; in return_key at and
\* on_time are the body's returned_at and on_time and expires_at is the
\* deadline read from the row; in update_password old is old_password and
\* hash first the password of the session's user, then the new hash.
Idle == [pc |-> "idle", op |-> "none", email |-> "", code |-> 0, token |-> 0,
         pw |-> "", confirm |-> "", now |-> 0, expires_at |-> 0,
         hash |-> NoHash, status |-> 0, body |-> "", result |-> "",
         note |-> "", review |-> "", at |-> 0, on_time |-> "None", old |-> ""]

\* argon2 hash_password with a fresh salt: the PHC string carries the salt
\* and the digest of (password, salt, secret).
hash(password, salt) == [pw |-> password, salt |-> salt]

\* PasswordHash::new(&hash): a PHC string parses, anything else (the empty
\* string NoHash stands for it) is an error.
PasswordHash_new(h) == IF h.salt = 0 THEN "Err" ELSE "Ok"

\* A verification that accepts every password.
verify_any(password, h) == "Ok(true)"

\* verify (argonhasher.rs lines 56-73): PasswordHash::new(&hash).unwrap()
\* panics in the blocking task on a string that does not parse, and
\* res.await.unwrap() carries the panic to the caller; otherwise
\* verify_password(..).map(|_| true) is Ok(true) on a match and the
\* password_hash error on none.
verify(password, h) ==
    IF PasswordHash_new(h) = "Err" THEN "Panic"
    ELSE IF h.pw = password THEN "Ok(true)"
    ELSE "Err"

is_ok(r) == r \in {"Ok(true)", "Ok(false)"}

\* serde_json::to_string(&CodeData{..}) / TokenData{..}: the two fields in order.
to_string(val, expires_at) == <<val, expires_at>>

\* serde_json::from_str::<CodeData> / <TokenData>: Ok with both fields, or Err.
from_str(s) ==
    IF Len(s) = 2
    THEN [ok |-> TRUE, val |-> s[1], expires_at |-> s[2]]
    ELSE [ok |-> FALSE, val |-> 0, expires_at |-> 0]

\* serde_json::to_string(user): the row; its password column is what matters.
user_to_string(row) == <<row.password>>

\* serde_json::from_str::<user::Model>.
user_from_str(s) ==
    IF Len(s) = 1
    THEN [ok |-> TRUE, password |-> s[1]]
    ELSE [ok |-> FALSE, password |-> NoHash]

\* A SET that keeps a key that is already there (SET .. NX).
set_options_nx(store, key, json, ttl) ==
    IF store[key].live THEN store
    ELSE [store EXCEPT ![key] = [live |-> TRUE, json |-> json, ttl |-> now + ttl]]

\* Redis SET key value EX ttl: upsert, the key lives ttl seconds from now.
set_options(store, key, json, ttl) ==
    [store EXCEPT ![key] = [live |-> TRUE, json |-> json, ttl |-> now + ttl]]

\* A GET that leaves the key's expiry as it is.
get_ex_keepttl(store, key, ttl) == store

\* Redis GETEX key EX ttl: what GET returns, and the key's expiry is reset.
get_ex(store, key, ttl) ==
    IF store[key].live THEN [store EXCEPT ![key].ttl = now + ttl] ELSE store

\* Redis DEL key.
del(store, key) == [store EXCEPT ![key] = Absent]

\* Redis drops a key once its expiry time is reached.
Expire(store, t) ==
    [k \in DOMAIN store |->
        IF store[k].live /\ store[k].ttl <= t THEN Absent ELSE store[k]]

\* The response: the locals are gone, what the caller sees stays.
Done(r, status, body, note) ==
    [Idle EXCEPT !.pc = "done", !.op = r.op, !.email = r.email,
                 !.status = status, !.body = body, !.note = note]

OthersIdle(p) == \A q \in Procs \ {p} : proc[q].pc = "idle"

\* -------------------------------------------------------------- Init
\* The state after construction, the hasher holding cfg.
Start(cfg) ==
    /\ now = 0
    /\ dbUser = [e \in Emails |->
                    IF e = "alice"
                    THEN [exists |-> TRUE, password |-> hash("old-pw", 1)]
                    ELSE NoRow]
    /\ codeRec = [e \in Emails |-> Absent]
    /\ tokenRec = [e \in Emails |-> Absent]
    /\ userCache = [e \in Emails |-> Absent]
    /\ outbox = {}
    /\ issued = 0
    /\ proc = [p \in Procs |-> Idle]
    /\ written = [e \in Emails |-> <<NoCode, NoCode>>]
    /\ spent = [e \in Emails |-> FALSE]
    /\ retired = [e \in Emails |-> 0]
    /\ lastReset = [e \in Emails |-> ""]
    /\ cachedAt = [e \in Emails |-> -1]
    /\ GLOBAL_ARGON2 = cfg
    /\ polls = 0
    /\ reservation = FirstReservation
    /\ keyLog = FirstLog
    /\ attempts = [e \in Emails |-> 0]
    /\ tried = [e \in Emails |-> 0]
    /\ granted = [p \in Procs |-> ""]

\* The server once main has configured the hasher (main.rs lines 321-328).
Init ==
    /\ Start(1)
    /\ student_id = <<>>
    /\ current_year = MaxYear
    /\ valid = "unchecked"

\* The process before main has configured the hasher.
Boot ==
    /\ Start(Unset)
    /\ student_id = <<>>
    /\ current_year = MaxYear
    /\ valid = "unchecked"

\* ----------------------------------------------------- forgot_password
\* A lookup that issues a code whether or not it found an account.
ForgotFind_always(p) ==
    /\ proc[p].pc = "idle"
    /\ \E email \in Emails, dbOk \in BOOLEAN, code \in Codes :
        LET r == [Idle EXCEPT !.op = "forgot_password", !.email = email] IN
        proc' = [proc EXCEPT ![p] =
            IF ~dbOk THEN Done(r, 500, "Failed to query user", "db error")
            ELSE [r EXCEPT !.pc = "f_set", !.code = code, !.now = now,
                           !.expires_at = now + (CODE_TTL_SECONDS \div 60) * 60]]
    /\ UNCHANGED <<now, stores, issued>>

\* The user lookup (lines 85-95) and, for an account, the code and its
\* expiry (lines 98-105).
ForgotFind(p) ==
    /\ proc[p].pc = "idle"
    /\ \E email \in Emails, dbOk \in BOOLEAN, code \in Codes :
        LET r == [Idle EXCEPT !.op = "forgot_password", !.email = email] IN
        proc' = [proc EXCEPT ![p] =
            IF ~dbOk THEN Done(r, 500, "Failed to query user", "db error")
            ELSE IF ~dbUser[email].exists
            THEN Done(r, 200, "If the email exists, a reset code has been sent.",
                      "no account")
            ELSE [r EXCEPT !.pc = "f_set", !.code = code, !.now = now,
                           !.expires_at = now + (CODE_TTL_SECONDS \div 60) * 60]]
    /\ UNCHANGED <<now, stores, issued>>

\* redis.set_options(code_key, json, EX CODE_TTL_SECONDS) (lines 107-127).
ForgotSetCode(p) ==
    /\ proc[p].pc = "f_set"
    /\ \E ok \in BOOLEAN :
        LET r == proc[p] IN
        IF ok
        THEN /\ codeRec' = set_options(codeRec, r.email,
                               to_string(r.code, r.expires_at), CODE_TTL_SECONDS)
             /\ proc' = [proc EXCEPT ![p].pc = "f_del", ![p].now = 0,
                                      ![p].expires_at = 0]
        ELSE /\ proc' = [proc EXCEPT ![p] =
                    Done(r, 500, "Failed to create reset record", "store error")]
             /\ UNCHANGED codeRec
    /\ UNCHANGED <<now, dbUser, tokenRec, userCache, issued>>

\* let _ = redis.del(token_key) (lines 129-130): the result is dropped.
ForgotDelToken(p) ==
    /\ proc[p].pc = "f_del"
    /\ \E ok \in BOOLEAN :
        tokenRec' = IF ok THEN del(tokenRec, proc[p].email) ELSE tokenRec
    /\ proc' = [proc EXCEPT ![p].pc = "f_send"]
    /\ UNCHANGED <<now, dbUser, codeRec, userCache, issued>>

\* A send whose result is dropped: the answer is 200 either way.
ForgotSend_dropped(p) ==
    /\ proc[p].pc = "f_send"
    /\ \E ok \in BOOLEAN :
        proc' = [proc EXCEPT ![p] =
            Done(proc[p], 200, "If the email exists, a reset code has been sent.",
                 IF ok THEN "sent" ELSE "mail error")]
    /\ UNCHANGED <<now, stores, issued>>

\* A send that takes the code record back when the mail fails.
ForgotSend_undoing(p) ==
    /\ proc[p].pc = "f_send"
    /\ \E ok \in BOOLEAN :
        LET r == proc[p] IN
        IF ok
        THEN /\ proc' = [proc EXCEPT ![p] =
                    Done(r, 200, "If the email exists, a reset code has been sent.",
                         "sent")]
             /\ UNCHANGED codeRec
        ELSE /\ proc' = [proc EXCEPT ![p] =
                    Done(r, 500, "Failed to send email", "mail error")]
             /\ codeRec' = del(codeRec, r.email)
    /\ UNCHANGED <<now, dbUser, tokenRec, userCache, issued>>

\* send_email(email, subject, content) (lines 132-147).
ForgotSend(p) ==
    /\ proc[p].pc = "f_send"
    /\ \E ok \in BOOLEAN :
        LET r == proc[p] IN
        IF ok
        THEN proc' = [proc EXCEPT ![p] =
                    Done(r, 200, "If the email exists, a reset code has been sent.",
                         "sent")]
        ELSE proc' = [proc EXCEPT ![p] =
                    Done(r, 500, "Failed to send email", "mail error")]
    /\ UNCHANGED <<now, stores, issued>>

\* --------------------------------------------------------- verify_code
\* The request arrives and the handler reads the clock (lines 166-168).
VerifyStart(p) ==
    /\ proc[p].pc = "idle"
    /\ issued < MaxToken
    /\ \E email \in Emails, code \in Codes :
        proc' = [proc EXCEPT ![p] =
            [Idle EXCEPT !.pc = "v_get", !.op = "verify_code", !.email = email,
                         !.code = code, !.now = now]]
    /\ UNCHANGED <<now, stores, issued>>

\* The check without the comparison of the codes: any candidate passes.
CodeRejected_anycode(code_data, code, t) ==
    code_data.expires_at <= t

\* The check with the expiry compared by < : a code passes at its expiry.
CodeRejected_lt(code_data, code, t) ==
    code_data.val # code \/ code_data.expires_at < t

\* code_data.code != code || code_data.expires_at <= now (line 198).
CodeRejected(code_data, code, t) ==
    code_data.val # code \/ code_data.expires_at <= t

\* A read that reports a Redis failure as a server error of its own.
VerifyGet_loud(p) ==
    /\ proc[p].pc = "v_get"
    /\ \E ok \in BOOLEAN :
        LET r == proc[p]
            code_str == codeRec[r.email]
            code_data == from_str(code_str.json)
        IN
        IF ~ok
        THEN /\ proc' = [proc EXCEPT ![p] =
                    Done(r, 500, "Failed to read reset record", "store error")]
             /\ UNCHANGED issued
        ELSE IF ~code_str.live \/ ~code_data.ok
                \/ CodeRejected(code_data, r.code, r.now)
        THEN /\ proc' = [proc EXCEPT ![p] =
                    Done(r, 400, "Invalid or expired code", "rejected")]
             /\ UNCHANGED issued
        ELSE /\ issued' = issued + 1
             /\ proc' = [proc EXCEPT ![p].pc = "v_set", ![p].token = issued + 1,
                    ![p].now = 0,
                    ![p].expires_at = now + (TOKEN_TTL_SECONDS \div 60) * 60]
    /\ UNCHANGED <<now, stores>>

\* A read that drops the code record when the candidate is refused.
VerifyGet_burning(p) ==
    /\ proc[p].pc = "v_get"
    /\ \E ok \in BOOLEAN :
        LET r == proc[p]
            code_str == codeRec[r.email]
            code_data == from_str(code_str.json)
        IN
        IF ~ok
        THEN /\ proc' = [proc EXCEPT ![p] =
                    Done(r, 400, "Invalid or expired code", "store error")]
             /\ UNCHANGED <<issued, codeRec>>
        ELSE IF ~code_str.live \/ ~code_data.ok
                \/ CodeRejected(code_data, r.code, r.now)
        THEN /\ proc' = [proc EXCEPT ![p] =
                    [Done(r, 400, "Invalid or expired code", "rejected")
                        EXCEPT !.code = r.code]]
             /\ codeRec' = del(codeRec, r.email)
             /\ UNCHANGED issued
        ELSE /\ issued' = issued + 1
             /\ proc' = [proc EXCEPT ![p].pc = "v_set", ![p].token = issued + 1,
                    ![p].now = 0,
                    ![p].expires_at = now + (TOKEN_TTL_SECONDS \div 60) * 60]
             /\ UNCHANGED codeRec
    /\ UNCHANGED <<now, dbUser, tokenRec, userCache>>

\* redis.get(code_key), the parse and the check (lines 170-200); on a pass
\* the token and its expiry (lines 202-209).
VerifyGet(p) ==
    /\ proc[p].pc = "v_get"
    /\ \E ok \in BOOLEAN :
        LET r == proc[p]
            code_str == codeRec[r.email]
            code_data == from_str(code_str.json)
        IN
        IF ~ok
        THEN /\ proc' = [proc EXCEPT ![p] =
                    Done(r, 400, "Invalid or expired code", "store error")]
             /\ UNCHANGED issued
        ELSE IF ~code_str.live
        THEN /\ proc' = [proc EXCEPT ![p] =
                    Done(r, 400, "Invalid or expired code", "absent")]
             /\ UNCHANGED issued
        ELSE IF ~code_data.ok
        THEN /\ proc' = [proc EXCEPT ![p] =
                    Done(r, 400, "Invalid or expired code", "parse")]
             /\ UNCHANGED issued
        ELSE IF CodeRejected(code_data, r.code, r.now)
        THEN /\ proc' = [proc EXCEPT ![p] =
                    [Done(r, 400, "Invalid or expired code",
                          IF code_data.val # r.code THEN "mismatch" ELSE "expired")
                        EXCEPT !.code = r.code]]
             /\ UNCHANGED issued
        ELSE /\ issued' = issued + 1
             /\ proc' = [proc EXCEPT ![p].pc = "v_set", ![p].token = issued + 1,
                    ![p].now = 0,
                    ![p].expires_at = now + (TOKEN_TTL_SECONDS \div 60) * 60]
    /\ UNCHANGED <<now, stores>>

\* redis.set_options(token_key, json, EX TOKEN_TTL_SECONDS) (lines 211-230).
VerifySetToken(p) ==
    /\ proc[p].pc = "v_set"
    /\ \E ok \in BOOLEAN :
        LET r == proc[p] IN
        IF ok
        THEN /\ tokenRec' = set_options(tokenRec, r.email,
                                to_string(r.token, r.expires_at), TOKEN_TTL_SECONDS)
             /\ proc' = [proc EXCEPT ![p].pc = "v_del", ![p].expires_at = 0]
        ELSE /\ proc' = [proc EXCEPT ![p] =
                    Done(r, 500, "Failed to update reset record", "store error")]
             /\ UNCHANGED tokenRec
    /\ UNCHANGED <<now, dbUser, codeRec, userCache, issued>>

\* let _ = redis.del(code_key) (lines 232-235): the result is dropped, and
\* the token goes out.
VerifyDelCode(p) ==
    /\ proc[p].pc = "v_del"
    /\ \E ok \in BOOLEAN :
        codeRec' = IF ok THEN del(codeRec, proc[p].email) ELSE codeRec
    /\ proc' = [proc EXCEPT ![p] =
            [Done(proc[p], 200, "reset_token", "verified")
                EXCEPT !.token = proc[p].token]]
    /\ UNCHANGED <<now, dbUser, tokenRec, userCache, issued>>

\* ------------------------------------------------------ reset_password
\* A reset that compares the passwords only after taking the token out of
\* Redis.
ResetStart_late(p) ==
    /\ proc[p].pc = "idle"
    /\ \E email \in Emails, token \in Tokens,
          new_password \in Passwords, confirm \in Passwords :
        LET r == [Idle EXCEPT !.op = "reset_password", !.email = email,
                              !.token = token, !.pw = new_password,
                              !.confirm = confirm] IN
        IF new_password # confirm
        THEN /\ tokenRec' = del(tokenRec, email)
             /\ proc' = [proc EXCEPT ![p] =
                    [Done(r, 400, "New password and confirm password are not same",
                          "confirm")
                        EXCEPT !.token = token, !.pw = new_password,
                               !.confirm = confirm]]
        ELSE /\ proc' = [proc EXCEPT ![p] = [r EXCEPT !.pc = "r_get", !.now = now]]
             /\ UNCHANGED tokenRec
    /\ UNCHANGED <<now, dbUser, codeRec, userCache, issued>>

\* new_password != confirm is answered at once (lines 255-264); otherwise
\* the handler reads the clock (line 266).
ResetStart(p) ==
    /\ proc[p].pc = "idle"
    /\ \E email \in Emails, token \in Tokens,
          new_password \in Passwords, confirm \in Passwords :
        LET r == [Idle EXCEPT !.op = "reset_password", !.email = email,
                              !.token = token, !.pw = new_password,
                              !.confirm = confirm] IN
        proc' = [proc EXCEPT ![p] =
            IF new_password # confirm
            THEN [Done(r, 400, "New password and confirm password are not same",
                       "confirm")
                    EXCEPT !.token = token, !.pw = new_password,
                           !.confirm = confirm]
            ELSE [r EXCEPT !.pc = "r_get", !.now = now]]
    /\ UNCHANGED <<now, stores, issued>>

\* The check without the comparison of the tokens: any token passes.
TokenRejected_anytoken(token_data, token, t) ==
    token_data.expires_at <= t

\* token_data.token != token || token_data.expires_at <= now (line 298).
TokenRejected(token_data, token, t) ==
    token_data.val # token \/ token_data.expires_at <= t

\* redis.get(token_key), the parse and the check (lines 268-300).
ResetGet(p) ==
    /\ proc[p].pc = "r_get"
    /\ \E ok \in BOOLEAN :
        LET r == proc[p]
            token_str == tokenRec[r.email]
            token_data == from_str(token_str.json)
        IN
        proc' = [proc EXCEPT ![p] =
            IF ~ok
            THEN Done(r, 400, "Invalid or expired reset token", "store error")
            ELSE IF ~token_str.live
            THEN Done(r, 400, "Invalid or expired reset token", "absent")
            ELSE IF ~token_data.ok
            THEN Done(r, 400, "Invalid or expired reset token", "parse")
            ELSE IF TokenRejected(token_data, r.token, r.now)
            THEN Done(r, 400, "Invalid or expired reset token",
                      IF token_data.val # r.token THEN "mismatch" ELSE "expired")
            ELSE [r EXCEPT !.pc = "r_find", !.now = 0]]
    /\ UNCHANGED <<now, stores, issued>>

\* A lookup that uses the token up as soon as it has passed the check.
ResetFind_spending(p) ==
    /\ proc[p].pc = "r_find"
    /\ \E dbOk \in BOOLEAN :
        LET r == proc[p] IN
        proc' = [proc EXCEPT ![p] =
            IF ~dbOk THEN Done(r, 500, "Failed to query user", "db error")
            ELSE IF ~dbUser[r.email].exists
            THEN Done(r, 404, "User not found", "no account")
            ELSE [r EXCEPT !.pc = "r_hash"]]
    /\ tokenRec' = del(tokenRec, proc[p].email)
    /\ UNCHANGED <<now, dbUser, codeRec, userCache, issued>>

\* user::Entity::find().filter(email) (lines 302-316).
ResetFind(p) ==
    /\ proc[p].pc = "r_find"
    /\ \E dbOk \in BOOLEAN :
        LET r == proc[p] IN
        proc' = [proc EXCEPT ![p] =
            IF ~dbOk THEN Done(r, 500, "Failed to query user", "db error")
            ELSE IF ~dbUser[r.email].exists
            THEN Done(r, 404, "User not found", "no account")
            ELSE [r EXCEPT !.pc = "r_hash"]]
    /\ UNCHANGED <<now, stores, issued>>

\* argon_hasher::hash(new_password) (lines 318-324).
ResetHash(p) ==
    /\ proc[p].pc = "r_hash"
    /\ \E ok \in BOOLEAN, salt \in Salts :
        LET r == proc[p] IN
        proc' = [proc EXCEPT ![p] =
            IF ~ok THEN Done(r, 500, "Failed to hash password", "hash error")
            ELSE [r EXCEPT !.pc = "r_update", !.hash = hash(r.pw, salt)]]
    /\ UNCHANGED <<now, stores, issued>>

\* An update that never reaches the table.
ResetUpdate_unsaved(p) ==
    /\ proc[p].pc = "r_update"
    /\ \E dbOk \in BOOLEAN :
        proc' = [proc EXCEPT ![p] =
            IF dbOk /\ dbUser[proc[p].email].exists
            THEN [proc[p] EXCEPT !.pc = "r_delcache", !.hash = NoHash]
            ELSE Done(proc[p], 500, "Failed to update password", "db error")]
    /\ UNCHANGED <<now, stores, issued>>

\* ua.password = Set(new_hash); ua.update(db) (lines 326-336).
ResetUpdate(p) ==
    /\ proc[p].pc = "r_update"
    /\ \E dbOk \in BOOLEAN :
        LET r == proc[p] IN
        IF dbOk /\ dbUser[r.email].exists
        THEN /\ dbUser' = [dbUser EXCEPT ![r.email].password = r.hash]
             /\ proc' = [proc EXCEPT ![p].pc = "r_delcache", ![p].hash = NoHash]
        ELSE /\ proc' = [proc EXCEPT ![p] =
                    Done(r, 500, "Failed to update password", "db error")]
             /\ UNCHANGED dbUser
    /\ UNCHANGED <<now, codeRec, tokenRec, userCache, issued>>

\* let _ = redis.del("user_{id}") (lines 338-339): the result is dropped.
ResetDelCache(p) ==
    /\ proc[p].pc = "r_delcache"
    /\ \E ok \in BOOLEAN :
        userCache' = IF ok THEN del(userCache, proc[p].email) ELSE userCache
    /\ proc' = [proc EXCEPT ![p].pc = "r_deltoken"]
    /\ UNCHANGED <<now, dbUser, codeRec, tokenRec, issued>>

\* let _ = redis.del(token_key) (lines 341-344): the result is dropped.
ResetDelToken(p) ==
    /\ proc[p].pc = "r_deltoken"
    /\ \E ok \in BOOLEAN :
        tokenRec' = IF ok THEN del(tokenRec, proc[p].email) ELSE tokenRec
    /\ proc' = [proc EXCEPT ![p] =
            [Done(proc[p], 200, "Password reset successfully", "reset")
                EXCEPT !.token = proc[p].token]]
    /\ UNCHANGED <<now, dbUser, codeRec, userCache, issued>>

\* ------------------------------------------- AuthBackend::authenticate
\* User::find().filter(email) and verify(password, user.password)
\* (login_system.rs lines 54-60 and 76).
AuthFind(p) ==
    /\ proc[p].pc = "idle"
    /\ \E email \in Emails, password \in Passwords, dbOk \in BOOLEAN :
        LET r == [Idle EXCEPT !.op = "authenticate", !.email = email,
                              !.pw = password]
            user == dbUser[email]
        IN
        proc' = [proc EXCEPT ![p] =
            IF ~dbOk
            THEN [Done(r, 0, "", "db error") EXCEPT !.result = "Err",
                                                    !.pw = password]
            ELSE IF user.exists /\ is_ok(verify(password, user.password))
            THEN [r EXCEPT !.pc = "a_cache", !.hash = user.password]
            ELSE [Done(r, 0, "", IF user.exists THEN "password" ELSE "no account")
                    EXCEPT !.result = "None", !.pw = password]]
    /\ UNCHANGED <<now, stores, issued>>

\* redis.set_options("user_{id}", json, EX 60), errors only logged
\* (login_system.rs lines 61-74).
AuthCache(p) ==
    /\ proc[p].pc = "a_cache"
    /\ \E ok \in BOOLEAN :
        LET r == proc[p] IN
        userCache' =
            IF ok
            THEN set_options(userCache, r.email,
                     user_to_string([exists |-> TRUE, password |-> r.hash]),
                     REDIS_EXPIRY_SECONDS)
            ELSE userCache
    /\ proc' = [proc EXCEPT ![p] =
            [Done(proc[p], 0, "", "login") EXCEPT !.result = "Some",
                                                  !.pw = proc[p].pw,
                                                  !.hash = proc[p].hash]]
    /\ UNCHANGED <<now, dbUser, codeRec, tokenRec, issued>>

\* ----------------------------------------------- AuthBackend::get_user
\* A lookup that hands a Redis failure on to its caller.
GetUserCache_strict(p) ==
    /\ proc[p].pc = "idle"
    /\ \E user_id \in Emails, ok \in BOOLEAN :
        LET r == [Idle EXCEPT !.op = "get_user", !.email = user_id]
            cached == userCache[user_id]
            user == user_from_str(cached.json)
        IN
        IF ok /\ cached.live
        THEN /\ userCache' = get_ex(userCache, user_id, REDIS_EXPIRY_SECONDS)
             /\ proc' = [proc EXCEPT ![p] =
                    IF user.ok
                    THEN [Done(r, 0, "", "cache") EXCEPT !.result = "Some",
                                                         !.hash = user.password]
                    ELSE [r EXCEPT !.pc = "g_find", !.note = "parse"]]
        ELSE /\ proc' = [proc EXCEPT ![p] =
                    IF ok THEN [r EXCEPT !.pc = "g_find", !.note = "miss"]
                    ELSE [Done(r, 0, "", "cache error") EXCEPT !.result = "Err"]]
             /\ UNCHANGED userCache
    /\ UNCHANGED <<now, dbUser, codeRec, tokenRec, issued>>

\* redis.get_ex("user_{id}", EX 60) and the parse (login_system.rs lines
\* 81-99): a hit answers from the cache.
GetUserCache(p) ==
    /\ proc[p].pc = "idle"
    /\ \E user_id \in Emails, ok \in BOOLEAN :
        LET r == [Idle EXCEPT !.op = "get_user", !.email = user_id]
            cached == userCache[user_id]
            user == user_from_str(cached.json)
        IN
        IF ok /\ cached.live
        THEN /\ userCache' = get_ex(userCache, user_id, REDIS_EXPIRY_SECONDS)
             /\ proc' = [proc EXCEPT ![p] =
                    IF user.ok
                    THEN [Done(r, 0, "", "cache") EXCEPT !.result = "Some",
                                                         !.hash = user.password]
                    ELSE [r EXCEPT !.pc = "g_find", !.note = "parse"]]
        ELSE /\ proc' = [proc EXCEPT ![p] =
                    [r EXCEPT !.pc = "g_find",
                              !.note = IF ok THEN "miss" ELSE "cache error"]]
             /\ UNCHANGED userCache
    /\ UNCHANGED <<now, dbUser, codeRec, tokenRec, issued>>

\* User::find_by_id(user_id) (login_system.rs lines 101-102 and 117).
GetUserFind(p) ==
    /\ proc[p].pc = "g_find"
    /\ \E dbOk \in BOOLEAN :
        LET r == proc[p]
            user == dbUser[r.email]
        IN
        proc' = [proc EXCEPT ![p] =
            IF ~dbOk THEN [Done(r, 0, "", "db error") EXCEPT !.result = "Err"]
            ELSE IF ~user.exists
            THEN [Done(r, 0, "", "no account") EXCEPT !.result = "None"]
            ELSE [r EXCEPT !.pc = "g_cache", !.hash = user.password]]
    /\ UNCHANGED <<now, stores, issued>>

\* redis.set_options("user_{id}", json, EX 60), errors only logged
\* (login_system.rs lines 104-117).
GetUserStore(p) ==
    /\ proc[p].pc = "g_cache"
    /\ \E ok \in BOOLEAN :
        LET r == proc[p] IN
        userCache' =
            IF ok
            THEN set_options(userCache, r.email,
                     user_to_string([exists |-> TRUE, password |-> r.hash]),
                     REDIS_EXPIRY_SECONDS)
            ELSE userCache
    /\ proc' = [proc EXCEPT ![p] =
            [Done(proc[p], 0, "", proc[p].note) EXCEPT !.result = "Some",
                                               !.hash = proc[p].hash]]
    /\ UNCHANGED <<now, dbUser, codeRec, tokenRec, issued>>

\* ---------------------------------------------------- update_password
\* update_password starts: new_password != confirm is answered at once
\* (user.rs lines 284-294); otherwise session.user, which the session layer
\* has loaded through get_user, from the cache or from the table, and which
\* login_required has made sure is there (user.rs lines 295-296, 392-396).
UpdatePasswordStart(p) ==
    /\ proc[p].pc = "idle"
    /\ \E email \in Emails, old_password \in Passwords,
          new_password \in Passwords, confirm \in Passwords,
          cached \in BOOLEAN :
        LET r == [Idle EXCEPT !.op = "update_password", !.email = email,
                              !.old = old_password, !.pw = new_password,
                              !.confirm = confirm]
            snapshot == user_from_str(userCache[email].json)
            user_current ==
                IF cached /\ userCache[email].live /\ snapshot.ok
                THEN snapshot.password
                ELSE dbUser[email].password
        IN
        /\ dbUser[email].exists
        /\ proc' = [proc EXCEPT ![p] =
                IF new_password # confirm
                THEN [Done(r, 400, "New password and confirm password are not same",
                           "confirm")
                        EXCEPT !.pw = new_password, !.confirm = confirm]
                ELSE [r EXCEPT !.pc = "p_verify", !.hash = user_current]]
    /\ UNCHANGED <<now, stores, issued>>

\* verify(old_password, old_hashed_password).await.is_err() (lines 297-299).
UpdatePasswordVerify(p) ==
    /\ proc[p].pc = "p_verify"
    /\ LET r == proc[p]
           res == verify(r.old, r.hash)
       IN
       proc' = [proc EXCEPT ![p] =
            IF res = "Panic"
            THEN [Done(r, 0, "", "hash") EXCEPT !.result = "Panic"]
            ELSE IF ~is_ok(res)
            THEN Done(r, 400, "Old password is not correct", "password")
            ELSE [r EXCEPT !.pc = "p_hash"]]
    /\ UNCHANGED <<now, stores, issued>>

\* hash(new_password).await.unwrap() (line 302).
UpdatePasswordHash(p) ==
    /\ proc[p].pc = "p_hash"
    /\ \E ok \in BOOLEAN, salt \in Salts :
        LET r == proc[p] IN
        proc' = [proc EXCEPT ![p] =
            IF ~ok THEN [Done(r, 0, "", "hash error") EXCEPT !.result = "Panic"]
            ELSE [r EXCEPT !.pc = "p_update", !.hash = hash(r.pw, salt)]]
    /\ UNCHANGED <<now, stores, issued>>

\* new_user.password = Set(..); new_user.update(&state.db) (lines 303-304,
\* 319-322).
UpdatePasswordUpdate(p) ==
    /\ proc[p].pc = "p_update"
    /\ \E dbOk \in BOOLEAN :
        LET r == proc[p] IN
        IF dbOk /\ dbUser[r.email].exists
        THEN /\ dbUser' = [dbUser EXCEPT ![r.email].password = r.hash]
             /\ proc' = [proc EXCEPT ![p].pc = "p_cache"]
        ELSE /\ proc' = [proc EXCEPT ![p] =
                    Done(r, 500, "Failed to update user password", "db error")]
             /\ UNCHANGED dbUser
    /\ UNCHANGED <<now, codeRec, tokenRec, userCache, issued>>

\* The cache is given the updated row, errors ignored (lines 305-317).
UpdatePasswordCache(p) ==
    /\ proc[p].pc = "p_cache"
    /\ \E ok \in BOOLEAN :
        LET r == proc[p] IN
        userCache' =
            IF ok
            THEN set_options(userCache, r.email,
                     user_to_string([exists |-> TRUE, password |-> r.hash]),
                     REDIS_EXPIRY_SECONDS)
            ELSE userCache
    /\ proc' = [proc EXCEPT ![p] =
            [Done(proc[p], 200, "Password updated successfully", "updated")
                EXCEPT !.pw = proc[p].pw, !.old = proc[p].old]]
    /\ UNCHANGED <<now, dbUser, codeRec, tokenRec, issued>>

UpdatePasswordSteps(p) ==
    \/ UpdatePasswordStart(p)
    \/ UpdatePasswordVerify(p)
    \/ UpdatePasswordHash(p)
    \/ UpdatePasswordUpdate(p)
    \/ UpdatePasswordCache(p)

\* ------------------------------------------------------ argonhasher
\* Params::new(memory_cost, iterations, parallelism, None): the parameters
\* in range, or an error (argonhasher.rs line 31).
Params_new(config) == IF config \in Configs THEN "Ok" ELSE "Err"

\* set_config(config): the Argon2 instance is built, the unwrap of refused
\* parameters panicking, and offered to the OnceLock, whose answer is
\* dropped: a set on a cell already full changes nothing and is not
\* reported (argonhasher.rs lines 18-36).
SetConfig(p) ==
    /\ proc[p].pc = "idle"
    /\ \E config \in Configs \cup {BadConfig} :
        /\ proc' = [proc EXCEPT ![p] =
                [Idle EXCEPT !.pc = "done", !.op = "set_config",
                             !.code = config,
                             !.result = IF Params_new(config) = "Ok"
                                        THEN "Ok" ELSE "Panic"]]
        /\ GLOBAL_ARGON2' =
                IF Params_new(config) = "Ok" /\ GLOBAL_ARGON2 = Unset
                THEN config ELSE GLOBAL_ARGON2
    /\ UNCHANGED <<now, stores, issued>>

\* hash(password) is called: the work goes to a blocking task
\* (argonhasher.rs lines 38-51).
HashCall(p) ==
    /\ proc[p].pc = "idle"
    /\ \E password \in Passwords :
        proc' = [proc EXCEPT ![p] =
            IF GLOBAL_ARGON2 = Unset
            THEN [Idle EXCEPT !.pc = "done", !.op = "hash", !.pw = password,
                              !.result = "Panic"]
            ELSE [Idle EXCEPT !.pc = "h_wait", !.op = "hash", !.pw = password]]
    /\ UNCHANGED <<now, stores, issued>>

\* The blocking task ends: the PHC string of the password under a fresh
\* salt, or the hasher's error (argonhasher.rs lines 46-53).
HashJoin(p) ==
    /\ proc[p].pc = "h_wait"
    /\ \E ok \in BOOLEAN, salt \in Salts :
        proc' = [proc EXCEPT ![p] =
            IF ok
            THEN [Done(proc[p], 0, "", "") EXCEPT !.result = "Ok",
                        !.pw = proc[p].pw, !.hash = hash(proc[p].pw, salt)]
            ELSE [Done(proc[p], 0, "", "") EXCEPT !.result = "Err",
                        !.pw = proc[p].pw]]
    /\ UNCHANGED <<now, stores, issued>>

\* The strings verify may be given: the hashes of the passwords, and one
\* that is no PHC string.
HashStrings == {hash(pw, salt) : pw \in Passwords, salt \in Salts} \cup {NoHash}

\* verify(password, hash) is called (argonhasher.rs lines 56-66).
VerifyCall(p) ==
    /\ proc[p].pc = "idle"
    /\ \E password \in Passwords, h \in HashStrings :
        proc' = [proc EXCEPT ![p] =
            IF GLOBAL_ARGON2 = Unset
            THEN [Idle EXCEPT !.pc = "done", !.op = "verify", !.pw = password,
                              !.hash = h, !.result = "Panic"]
            ELSE [Idle EXCEPT !.pc = "y_wait", !.op = "verify", !.pw = password,
                              !.hash = h]]
    /\ UNCHANGED <<now, stores, issued>>

\* The blocking task ends (argonhasher.rs lines 67-72).
VerifyJoin(p) ==
    /\ proc[p].pc = "y_wait"
    /\ proc' = [proc EXCEPT ![p] =
            [Done(proc[p], 0, "", "") EXCEPT
                !.result = verify(proc[p].pw, proc[p].hash),
                !.pw = proc[p].pw, !.hash = proc[p].hash]]
    /\ UNCHANGED <<now, stores, issued>>

\* task::spawn_blocking(f): f runs on a thread of the blocking pool, not on
\* a worker thread of the scheduler (argonhasher.rs lines 46 and 67).
spawn_inline == "worker"

spawn_blocking == "blocking pool"

\* The scheduler's worker threads that key derivations in progress hold.
Held ==
    Cardinality({p \in Procs : /\ proc[p].pc \in {"h_wait", "y_wait"}
                               /\ spawn_blocking = "worker"})

\* The scheduler polls a ready task that has nothing to do with the hasher:
\* it needs a worker thread.
Poll ==
    /\ Held < WorkerThreads
    /\ polls' = (polls + 1) % MaxPolls
    /\ UNCHANGED <<now, stores, issued, proc>>

HasherSteps(p) ==
    \/ HashCall(p)
    \/ HashJoin(p)
    \/ VerifyCall(p)
    \/ VerifyJoin(p)

\* ------------------------------------------------------ reservation
NoUser == ""

\* update_reservation up to its UPDATE: the session, the row, the owner,
\* the status, the body's times (reservation.rs lines 321-379).
UpdateFind(p) ==
    /\ proc[p].pc = "idle"
    /\ \E user \in Users \cup {NoUser}, purpose \in 0..MaxPurpose,
          timeOk \in BOOLEAN, dbOk \in BOOLEAN :
        LET r == [Idle EXCEPT !.op = "update_reservation", !.email = user,
                              !.code = purpose]
        IN
        proc' = [proc EXCEPT ![p] =
            IF user = NoUser THEN Done(r, 401, "Unauthorized", "session")
            ELSE IF ~dbOk
            THEN Done(r, 500, "Failed to fetch reservation", "db error")
            ELSE IF ~reservation.exists
            THEN Done(r, 404, "Reservation not found", "absent")
            ELSE IF reservation.user_id # user
            THEN Done(r, 403, "You can only update your own reservation", "owner")
            ELSE IF reservation.status # "Pending"
            THEN Done(r, 400, "Only pending reservations can be updated",
                      "status")
            ELSE IF ~timeOk THEN Done(r, 400, "Invalid start_time", "parse")
            ELSE [r EXCEPT !.pc = "u_save"]]
    /\ UNCHANGED <<now, stores, issued, reservation>>

\* reservation.update(&state.db): the columns that were Set are written to
\* the row of that id, whatever it now holds; no row is an error
\* (reservation.rs lines 381-389).
UpdateSave(p) ==
    /\ proc[p].pc = "u_save"
    /\ \E ok \in BOOLEAN :
        LET r == proc[p] IN
        IF ok /\ reservation.exists
        THEN /\ reservation' = [reservation EXCEPT
                    !.purpose = IF r.code = 0 THEN @ ELSE r.code]
             /\ proc' = [proc EXCEPT ![p] = Done(r, 200, "updated", "saved")]
        ELSE /\ proc' = [proc EXCEPT ![p] =
                    Done(r, 500, "Failed to update reservation", "db error")]
             /\ UNCHANGED reservation
    /\ UNCHANGED <<now, stores, issued>>

\* cancel_reservation up to its DELETE (reservation.rs lines 481-511).
CancelFind(p) ==
    /\ proc[p].pc = "idle"
    /\ \E user \in Users \cup {NoUser}, dbOk \in BOOLEAN :
        LET r == [Idle EXCEPT !.op = "cancel_reservation", !.email = user] IN
        proc' = [proc EXCEPT ![p] =
            IF user = NoUser THEN Done(r, 401, "Unauthorized", "session")
            ELSE IF ~dbOk
            THEN Done(r, 500, "Failed to fetch reservation", "db error")
            ELSE IF ~reservation.exists
            THEN Done(r, 404, "Reservation not found", "absent")
            ELSE IF reservation.user_id # user
            THEN Done(r, 403, "You can only cancel your own reservation", "owner")
            ELSE IF reservation.status # "Pending"
            THEN Done(r, 400, "Only pending reservations can be cancelled",
                      "status")
            ELSE [r EXCEPT !.pc = "c_delete"]]
    /\ UNCHANGED <<now, stores, issued, reservation>>

\* reservation.delete(&state.db): the row of that id goes, whatever it now
\* holds; deleting no row is no error (reservation.rs lines 513-521).
CancelDelete(p) ==
    /\ proc[p].pc = "c_delete"
    /\ \E ok \in BOOLEAN :
        LET r == proc[p] IN
        IF ok
        THEN /\ reservation' = [reservation EXCEPT !.exists = FALSE]
             /\ proc' = [proc EXCEPT ![p] =
                    Done(r, 200, "Reservation cancelled successfully", "deleted")]
        ELSE /\ proc' = [proc EXCEPT ![p] =
                    Done(r, 500, "Failed to cancel reservation", "db error")]
             /\ UNCHANGED reservation
    /\ UNCHANGED <<now, stores, issued>>

\* review_reservation reads the row (reservation.rs lines 220-228).
ReviewFind(p) ==
    /\ proc[p].pc = "idle"
    /\ \E status \in Statuses, dbOk \in BOOLEAN :
        LET r == [Idle EXCEPT !.op = "review_reservation", !.review = status] IN
        proc' = [proc EXCEPT ![p] =
            IF ~dbOk
            THEN Done(r, 500, "Failed to review reservation", "db error")
            ELSE IF ~reservation.exists
            THEN Done(r, 404, "Reservation not found", "absent")
            ELSE [r EXCEPT !.pc = "w_save"]]
    /\ UNCHANGED <<now, stores, issued, reservation>>

\* review_reservation writes status and reject_reason (lines 226-231).
ReviewSave(p) ==
    /\ proc[p].pc = "w_save"
    /\ \E ok \in BOOLEAN :
        LET r == proc[p] IN
        IF ok /\ reservation.exists
        THEN /\ reservation' = [reservation EXCEPT !.status = r.review]
             /\ proc' = [proc EXCEPT ![p].pc = "w_user"]
        ELSE /\ proc' = [proc EXCEPT ![p] =
                    Done(r, 500, "Failed to review reservation", "db error")]
             /\ UNCHANGED reservation
    /\ UNCHANGED <<now, stores, issued>>

\* review_reservation looks the owner up (lines 233-248).
ReviewUser(p) ==
    /\ proc[p].pc = "w_user"
    /\ \E found \in {"Some", "None", "Err"} :
        proc' = [proc EXCEPT ![p] =
            IF found = "None" THEN Done(proc[p], 404, "User not found", "no account")
            ELSE IF found = "Err"
            THEN Done(proc[p], 500, "Failed to fetch user", "db error")
            ELSE [proc[p] EXCEPT !.pc = "w_mail"]]
    /\ UNCHANGED <<now, stores, issued, reservation>>

\* review_reservation mails the owner; send_email(..).await.unwrap()
\* (lines 261-272).
ReviewMail(p) ==
    /\ proc[p].pc = "w_mail"
    /\ \E ok \in BOOLEAN :
        proc' = [proc EXCEPT ![p] =
            IF ok
            THEN Done(proc[p], 200, "Reservation reviewed successfully", "sent")
            ELSE [Done(proc[p], 0, "", "mail error") EXCEPT !.result = "Panic"]]
    /\ UNCHANGED <<now, stores, issued, reservation>>

ReservationSteps(p) ==
    \/ UpdateFind(p)
    \/ UpdateSave(p)
    \/ CancelFind(p)
    \/ CancelDelete(p)
    \/ ReviewFind(p)
    \/ ReviewSave(p)
    \/ ReviewUser(p)
    \/ ReviewMail(p)

\* -------------------------------------------------------------- key
\* body.on_time: None, or Some of a flag.
OnTimes == {"None", "true", "false"}

\* return_key up to its UPDATE: the row, the test of returned_at, the
\* deadline, and body.returned_at.parse().unwrap(), which panics on a
\* string that is no timestamp (0 stands for one) (key.rs lines 379-403).
ReturnFind(p) ==
    /\ proc[p].pc = "idle"
    /\ \E returned_at \in 0..MaxTime, on_time \in OnTimes, dbOk \in BOOLEAN :
        LET r == [Idle EXCEPT !.op = "return_key", !.at = returned_at,
                              !.on_time = on_time]
        IN
        proc' = [proc EXCEPT ![p] =
            IF ~dbOk
            THEN Done(r, 500, "Failed to fetch key transaction log", "db error")
            ELSE IF ~keyLog.exists
            THEN Done(r, 404, "Key transaction log not found", "absent")
            ELSE IF keyLog.returned_at # 0
            THEN Done(r, 400, "Key already returned", "returned")
            ELSE IF returned_at = 0
            THEN [Done(r, 0, "", "parse") EXCEPT !.result = "Panic"]
            ELSE [r EXCEPT !.pc = "k_update", !.expires_at = keyLog.deadline]]
    /\ UNCHANGED <<now, stores, issued, keyLog>>

\* key_log.update(&state.db): returned_at and on_time are written to the
\* row of that id, whatever it now holds (key.rs lines 401-412).
ReturnUpdate(p) ==
    /\ proc[p].pc = "k_update"
    /\ \E ok \in BOOLEAN :
        LET r == proc[p] IN
        IF ok /\ keyLog.exists
        THEN /\ keyLog' = [keyLog EXCEPT
                    !.returned_at = r.at,
                    !.on_time = IF r.on_time = "None"
                                THEN r.at <= r.expires_at
                                ELSE r.on_time = "true"]
             /\ proc' = [proc EXCEPT ![p] =
                    [Done(r, 200, "Key returned successfully", "saved")
                        EXCEPT !.at = r.at, !.on_time = r.on_time]]
        ELSE /\ proc' = [proc EXCEPT ![p] =
                    Done(r, 500, "Failed to return key", "db error")]
             /\ UNCHANGED keyLog
    /\ UNCHANGED <<now, stores, issued>>

KeySteps(p) ==
    \/ ReturnFind(p)
    \/ ReturnUpdate(p)

\* ------------------------------------------------------------ utils
Decimal == <<"0", "1", "2", "3", "4", "5", "6", "7", "8", "9">>
LowerHex == Decimal \o <<"a", "b", "c", "d", "e", "f">>
UpperHex == Decimal \o <<"A", "B", "C", "D", "E", "F">>

Position(c, digits) ==
    IF \E i \in 1..Len(digits) : digits[i] = c
    THEN (CHOOSE i \in 1..Len(digits) : digits[i] = c) - 1
    ELSE -1

\* char::to_digit(radix): the digit's value, None (-1) for any other
\* character; letters count in either case.
to_digit(c, radix) ==
    IF radix = 10 THEN Position(c, Decimal)
    ELSE IF Position(c, LowerHex) # -1 THEN Position(c, LowerHex)
    ELSE Position(c, UpperHex)

\* The digits of from_str_radix, left to right: an error (-1) on a
\* character that is no digit and on a value that does not fit a u8.
RECURSIVE Accumulate(_, _, _)
Accumulate(digits, radix, acc) ==
    IF digits = <<>> THEN acc
    ELSE IF to_digit(Head(digits), radix) = -1 THEN -1
    ELSE IF acc * radix + to_digit(Head(digits), radix) > 255 THEN -1
    ELSE Accumulate(Tail(digits), radix, acc * radix + to_digit(Head(digits), radix))

\* u8::from_str_radix(src, radix), which str::parse::<u8> calls with radix
\* 10: an optional "+" and then at least one digit; Err is -1.
from_str_radix(src, radix) ==
    IF src = <<>> THEN -1
    ELSE LET digits == IF Head(src) = "+" THEN Tail(src) ELSE src IN
         IF digits = <<>> THEN -1 ELSE Accumulate(digits, radix, 0)

\* check_student_id (utils.rs lines 4-47); year is Local::now().year().
check_student_id(id, year) ==
    IF Len(id) # 8 THEN FALSE
    ELSE
    LET this_year == (year - 1911) % 256
        year_parsed == from_str_radix(SubSeq(id, 2, 3), 10)
        department == from_str_radix(SubSeq(id, 4, 5), 16)
        class == to_digit(id[6], 10)
        number == from_str_radix(SubSeq(id, 7, 8), 10)
    IN
    IF id[1] # "0" THEN FALSE
    ELSE IF year_parsed = -1 \/ year_parsed > this_year % 100 THEN FALSE
    ELSE IF department = -1 THEN FALSE
    ELSE IF class = -1 \/ class > 1 THEN FALSE
    ELSE IF number = -1 \/ number > 99 \/ number < 1 THEN FALSE
    ELSE TRUE

\* The characters tried in each field of an id, and the years it is
\* checked in.
FirstChars == {"0", "1"}
YearChars == {"0", "1", "5", "6", "+"}
DepartmentChars == {"A", "f", "G", " "}
ClassChars == {"0", "1", "2", "+"}
NumberChars == {"0", "9", "+", "-"}
Years == (MaxYear - 1)..MaxYear

\* The ids checked: every combination of the characters above, and ids of
\* seven and of nine characters.
StudentIds ==
    {<<a, y1, y2, d1, d2, c, n1, n2>> :
        a \in FirstChars, y1 \in YearChars, y2 \in YearChars,
        d1 \in DepartmentChars, d2 \in DepartmentChars, c \in ClassChars,
        n1 \in NumberChars, n2 \in NumberChars}
    \cup {<<"0", "1", "0", "1", "E", "0", "0">>,
          <<"0", "1", "0", "1", "E", "0", "0", "1", "1">>}

\* check_student_id is called on student_id.
CheckStudentId ==
    /\ valid = "unchecked"
    /\ valid' = IF check_student_id(student_id, current_year)
                THEN "true" ELSE "false"
    /\ UNCHANGED <<student_id, current_year>>

\* ------------------------------------------------------ the environment
\* The response is sent and the request is over.
Return(p) ==
    /\ proc[p].pc = "done"
    /\ proc' = [proc EXCEPT ![p] = Idle]
    /\ UNCHANGED <<now, stores, issued>>

\* Time passes; Redis expires the keys whose time has come.
Tick ==
    /\ now + TickStep <= MaxNow
    /\ now' = now + TickStep
    /\ codeRec' = Expire(codeRec, now')
    /\ tokenRec' = Expire(tokenRec, now')
    /\ userCache' = Expire(userCache, now')
    /\ UNCHANGED <<dbUser, issued, proc>>

\* Time passes in the steps at which the cache's expiry is observed.
TickCache ==
    /\ now + CacheStep <= MaxCacheNow
    /\ now' = now + CacheStep
    /\ codeRec' = Expire(codeRec, now')
    /\ tokenRec' = Expire(tokenRec, now')
    /\ userCache' = Expire(userCache, now')
    /\ UNCHANGED <<dbUser, issued, proc>>

\* Redis is shared: the value under a key may be one that this build of
\* the service cannot parse (a record of another format), which the handlers
\* provide for (password.rs lines 183-195, login_system.rs line 96).
GarbleCode(e) ==
    /\ codeRec[e].live
    /\ from_str(codeRec[e].json).ok
    /\ codeRec' = [codeRec EXCEPT ![e].json = <<>>]
    /\ UNCHANGED <<now, dbUser, tokenRec, userCache, issued, proc>>

GarbleUser(e) ==
    /\ userCache[e].live
    /\ user_from_str(userCache[e].json).ok
    /\ userCache' = [userCache EXCEPT ![e].json = <<>>]
    /\ UNCHANGED <<now, dbUser, codeRec, tokenRec, issued, proc>>

\* The steps of each handler.
ForgotSteps(p) ==
    \/ ForgotFind(p)
    \/ ForgotSetCode(p)
    \/ ForgotDelToken(p)
    \/ ForgotSend(p)

VerifySteps(p) ==
    \/ VerifyStart(p)
    \/ VerifyGet(p)
    \/ VerifySetToken(p)
    \/ VerifyDelCode(p)

ResetSteps(p) ==
    \/ ResetStart(p)
    \/ ResetGet(p)
    \/ ResetFind(p)
    \/ ResetHash(p)
    \/ ResetUpdate(p)
    \/ ResetDelCache(p)
    \/ ResetDelToken(p)

AuthSteps(p) ==
    \/ AuthFind(p)
    \/ AuthCache(p)

GetUserSteps(p) ==
    \/ GetUserCache(p)
    \/ GetUserFind(p)
    \/ GetUserStore(p)

\* ------------------------------------------------------------ history
\* What a step of slot p adds to the record of the run.
wrote(p) == proc[p].pc = "f_set" /\ proc'[p].pc = "f_del"

HOutbox(p) ==
    outbox' = IF proc[p].pc = "f_send" /\ proc'[p].note = "sent"
              THEN outbox \cup {<<proc[p].email, proc[p].code>>}
              ELSE outbox

HWritten(p) ==
    written' = IF wrote(p)
               THEN [written EXCEPT ![proc[p].email] =
                        <<@[2], [code |-> proc[p].code, at |-> proc[p].now]>>]
               ELSE written

HSpent(p) ==
    spent' = IF wrote(p) THEN [spent EXCEPT ![proc[p].email] = FALSE]
             ELSE IF proc[p].pc = "v_del"
             THEN [spent EXCEPT ![proc[p].email] = TRUE]
             ELSE spent

HRetired(p) ==
    retired' = IF proc[p].pc = "f_send" /\ proc'[p].status = 200
               THEN [retired EXCEPT ![proc[p].email] = issued]
               ELSE retired

\* A Verify of slot p ends without 200.
failed(p) ==
    /\ proc[p].pc \in {"v_get", "v_set"}
    /\ proc'[p].pc = "done"
    /\ proc'[p].status # 200

HAttempts(p) ==
    attempts' = IF wrote(p) THEN [attempts EXCEPT ![proc[p].email] = 0]
                ELSE IF failed(p) /\ attempts[proc[p].email] < MaxAttempts
                THEN [attempts EXCEPT ![proc[p].email] = @ + 1]
                ELSE attempts

\* A Reset of slot p that had passed the token check ends without 200.
HTried(p) ==
    tried' = IF /\ proc[p].pc \in {"r_find", "r_hash", "r_update"}
                /\ proc'[p].pc = "done"
             THEN [tried EXCEPT ![proc[p].email] = proc[p].token]
             ELSE tried

\* What the request in slot p has proved: that its token is the one of the
\* token record, there and unexpired when read, or that its old password
\* is the one of the session user's hash.
HGranted(p) ==
    LET e == proc[p].email
        d == from_str(tokenRec[e].json)
    IN
    granted' = [granted EXCEPT ![p] =
        IF proc'[p].pc \in {"idle", "done"} THEN ""
        ELSE IF proc[p].pc = "r_get"
        THEN IF /\ tokenRec[e].live
                /\ d.ok
                /\ d.val = proc[p].token
                /\ d.expires_at > proc[p].now
             THEN "token" ELSE ""
        ELSE IF proc[p].pc = "p_verify"
        THEN IF proc[p].hash.salt # 0 /\ proc[p].hash.pw = proc[p].old
             THEN "password" ELSE ""
        ELSE @]

HLastReset(p) ==
    lastReset' = IF proc[p].pc = "r_deltoken"
                 THEN [lastReset EXCEPT ![proc[p].email] = proc[p].pw]
                 ELSE lastReset

\* user_{id} was written with its 60 seconds, or hit and refreshed.
HCachedAt(p) ==
    LET e == proc'[p].email IN
    cachedAt' =
        IF \/ /\ proc[p].pc \in {"a_cache", "g_cache"}
              /\ userCache'[e].live
              /\ userCache'[e].ttl = now + REDIS_EXPIRY_SECONDS
           \/ /\ proc[p].pc = "idle"
              /\ proc'[p].op = "get_user"
              /\ proc'[p].note = "cache"
        THEN [cachedAt EXCEPT ![e] = now]
        ELSE cachedAt

\* ------------------------------------------------------ specifications
AllIdle == \A p \in Procs : proc[p].pc = "idle"

\* The slot that serves the requests when they come one at a time.
First == CHOOSE p \in Procs : \A q \in Procs : p <= q

\* The whole system: requests interleave at their suspension points and
\* the clock runs freely.
Next ==
    \/ \E p \in Procs :
        /\ \/ ForgotSteps(p)
           \/ VerifySteps(p)
           \/ ResetSteps(p)
           \/ AuthSteps(p)
           \/ GetUserSteps(p)
           \/ Return(p)
        /\ UNCHANGED <<outbox, written, spent, retired, lastReset, cachedAt, aux>>
    \/ Tick /\ UNCHANGED <<outbox, written, spent, retired, lastReset, cachedAt, aux>>

Spec == Init /\ [][Next]_vars

\* The reset protocol with its requests served one at a time, the clock
\* running freely, and the history of codes and tokens recorded.
SeqNext ==
    \/ /\ \/ ForgotSteps(First)
          \/ VerifySteps(First)
          \/ ResetSteps(First)
          \/ Return(First)
       /\ HWritten(First) /\ HSpent(First) /\ HRetired(First)
       /\ UNCHANGED <<outbox, lastReset, cachedAt, aux>>
    \/ Tick /\ UNCHANGED <<outbox, written, spent, retired, lastReset, cachedAt, aux>>

SeqSpec == Init /\ [][SeqNext]_vars

\* The reset protocol and the login, requests served one at a time, the
\* last successful reset recorded.
LoginNext ==
    \/ /\ \/ ForgotSteps(First)
          \/ VerifySteps(First)
          \/ ResetSteps(First)
          \/ AuthSteps(First)
          \/ Return(First)
       /\ HLastReset(First)
       /\ UNCHANGED <<outbox, written, spent, retired, cachedAt, aux>>
    \/ Tick /\ UNCHANGED <<outbox, written, spent, retired, lastReset, cachedAt, aux>>

LoginSpec == Init /\ [][LoginNext]_vars

\* The reset protocol with its requests interleaved; the clock is read
\* between requests.
RaceNext ==
    \/ \E p \in Procs :
        /\ \/ ForgotSteps(p)
           \/ VerifySteps(p)
           \/ ResetSteps(p)
           \/ Return(p)
        /\ UNCHANGED <<outbox, written, spent, retired, lastReset, cachedAt, aux>>
    \/ AllIdle /\ Tick /\ UNCHANGED <<outbox, written, spent, retired, lastReset, cachedAt, aux>>

RaceSpec == Init /\ [][RaceNext]_vars

\* Resets interleaved with identity lookups; codes and tokens are obtained
\* while nothing else is in flight, and the clock is read between requests.
CacheNext ==
    \/ \E p \in Procs :
        /\ \/ OthersIdle(p) /\ ForgotSteps(p)
           \/ OthersIdle(p) /\ VerifySteps(p)
           \/ ResetSteps(p)
           \/ GetUserSteps(p)
           \/ Return(p)
        /\ UNCHANGED <<outbox, written, spent, retired, lastReset, cachedAt, aux>>
    \/ AllIdle /\ Tick /\ UNCHANGED <<outbox, written, spent, retired, lastReset, cachedAt, aux>>

CacheSpec == Init /\ [][CacheNext]_vars

\* Requests for codes and their verification, served one at a time, with
\* the mail that went out recorded and foreign values under the code key.
MailNext ==
    \/ /\ \/ ForgotSteps(First)
          \/ VerifySteps(First)
          \/ Return(First)
       /\ HOutbox(First)
       /\ UNCHANGED <<written, spent, retired, lastReset, cachedAt, aux>>
    \/ Tick /\ UNCHANGED <<outbox, written, spent, retired, lastReset, cachedAt, aux>>
    \/ \E e \in Emails :
        GarbleCode(e) /\ UNCHANGED <<outbox, written, spent, retired, lastReset, cachedAt, aux>>

MailSpec == Init /\ [][MailNext]_vars

\* Logins and identity lookups, served one at a time, the clock observed
\* twice per cache lifetime, the last touch of each cache entry recorded.
AuthNext ==
    \/ /\ \/ AuthSteps(First)
          \/ GetUserSteps(First)
          \/ Return(First)
       /\ HCachedAt(First)
       /\ UNCHANGED <<outbox, written, spent, retired, lastReset, aux>>
    \/ TickCache /\ UNCHANGED <<outbox, written, spent, retired, lastReset, cachedAt, aux>>

AuthSpec == Init /\ [][AuthNext]_vars

\* Logins and identity lookups, served one at a time, with foreign values
\* under the cache key.
LookupNext ==
    \/ /\ \/ AuthSteps(First)
          \/ GetUserSteps(First)
          \/ Return(First)
       /\ UNCHANGED <<outbox, written, spent, retired, lastReset, cachedAt, aux>>
    \/ TickCache /\ UNCHANGED <<outbox, written, spent, retired, lastReset, cachedAt, aux>>
    \/ \E e \in Emails :
        GarbleUser(e) /\ UNCHANGED <<outbox, written, spent, retired, lastReset, cachedAt, aux>>

LookupSpec == Init /\ [][LookupNext]_vars

\* The hasher called on its own, with every password and every string.
HashNext ==
    \E p \in Procs :
        /\ HasherSteps(p) \/ Return(p)
        /\ UNCHANGED <<outbox, written, spent, retired, lastReset, cachedAt, aux>>

HashSpec == Init /\ [][HashNext]_vars

\* No request other than a Request is in flight beside slot p.
OthersRequesting(p) ==
    \A q \in Procs \ {p} : proc[q].op \in {"none", "forgot_password"}

\* Requests interleaved with each other, a Verify on its own, the codes
\* written recorded; the clock is read between requests.
TwinNext ==
    \/ \E p \in Procs :
        /\ \/ OthersRequesting(p) /\ ForgotSteps(p)
           \/ OthersIdle(p) /\ VerifySteps(p)
           \/ Return(p)
        /\ HWritten(p)
        /\ UNCHANGED <<outbox, spent, retired, lastReset, cachedAt, aux>>
    \/ AllIdle /\ Tick /\ UNCHANGED <<outbox, written, spent, retired, lastReset, cachedAt, aux>>

TwinSpec == Init /\ [][TwinNext]_vars

\* The reservation routes, their requests interleaved.
ReservationNext ==
    \E p \in Procs :
        /\ ReservationSteps(p) \/ (Return(p) /\ UNCHANGED reservation)
        /\ UNCHANGED <<outbox, written, spent, retired, lastReset, cachedAt>>
        /\ UNCHANGED <<GLOBAL_ARGON2, polls, keyLog, student_id, current_year,
                       valid, attempts, tried, granted>>

ReservationSpec == Init /\ [][ReservationNext]_vars

\* check_student_id on its own: any id of StudentIds, in any year of Years.
StudentInit ==
    /\ Start(1)
    /\ student_id \in StudentIds
    /\ current_year \in Years
    /\ valid = "unchecked"

StudentNext ==
    /\ CheckStudentId
    /\ UNCHANGED <<now, stores, issued, proc>>
    /\ UNCHANGED <<outbox, written, spent, retired, lastReset, cachedAt>>
    /\ UNCHANGED <<GLOBAL_ARGON2, polls, reservation, keyLog, attempts, tried, granted>>

StudentSpec == StudentInit /\ [][StudentNext]_vars

\* return_key, its requests interleaved.
KeyNext ==
    \E p \in Procs :
        /\ KeySteps(p) \/ (Return(p) /\ UNCHANGED keyLog)
        /\ UNCHANGED <<outbox, written, spent, retired, lastReset, cachedAt>>
        /\ UNCHANGED <<GLOBAL_ARGON2, polls, reservation, student_id,
                       current_year, valid, attempts, tried, granted>>

KeySpec == Init /\ [][KeyNext]_vars

\* Requests for codes and their verification, served one at a time, the
\* failed Verifies counted and the mail that went out recorded.
AttemptNext ==
    \/ /\ \/ ForgotSteps(First)
          \/ VerifySteps(First)
          \/ Return(First)
       /\ HAttempts(First)
       /\ HOutbox(First)
       /\ UNCHANGED <<written, spent, retired, lastReset, cachedAt>>
       /\ UNCHANGED <<GLOBAL_ARGON2, polls, reservation, keyLog, student_id,
                      current_year, valid, tried, granted>>
    \/ Tick /\ UNCHANGED <<outbox, written, spent, retired, lastReset, cachedAt, aux>>

AttemptSpec == Init /\ [][AttemptNext]_vars

\* The reset protocol with its requests served one at a time, the Resets
\* that failed after their token check recorded.
RetryNext ==
    \/ /\ \/ ForgotSteps(First)
          \/ VerifySteps(First)
          \/ ResetSteps(First)
          \/ Return(First)
       /\ HTried(First)
       /\ UNCHANGED <<outbox, written, spent, retired, lastReset, cachedAt>>
       /\ UNCHANGED <<GLOBAL_ARGON2, polls, reservation, keyLog, student_id,
                      current_year, valid, attempts, granted>>
    \/ Tick /\ UNCHANGED <<outbox, written, spent, retired, lastReset, cachedAt, aux>>

RetrySpec == Init /\ [][RetryNext]_vars

\* Every route that has to do with passwords, one request at a time, with
\* what each request has proved and the last successful reset recorded.
PasswordNext ==
    \/ /\ \/ ForgotSteps(First)
          \/ VerifySteps(First)
          \/ ResetSteps(First)
          \/ AuthSteps(First)
          \/ UpdatePasswordSteps(First)
          \/ Return(First)
       /\ HGranted(First)
       /\ HLastReset(First)
       /\ UNCHANGED <<outbox, written, spent, retired, cachedAt>>
       /\ UNCHANGED <<GLOBAL_ARGON2, polls, reservation, keyLog, student_id,
                      current_year, valid, attempts, tried>>
    \/ Tick /\ UNCHANGED <<outbox, written, spent, retired, lastReset, cachedAt, aux>>

PasswordSpec == Init /\ [][PasswordNext]_vars

\* The unrelated task is polled; nothing else moves.
PollStep ==
    /\ Poll
    /\ UNCHANGED <<outbox, written, spent, retired, lastReset, cachedAt>>
    /\ UNCHANGED <<GLOBAL_ARGON2, reservation, keyLog, student_id,
                   current_year, valid, attempts, tried, granted>>

\* The hasher called by any number of requests while the runtime has an
\* unrelated task ready; the runtime polls a ready task whenever a worker
\* thread is free, the derivations take as long as they take.
SchedNext ==
    \/ \E p \in Procs :
        /\ HasherSteps(p) \/ Return(p)
        /\ UNCHANGED <<outbox, written, spent, retired, lastReset, cachedAt, aux>>
    \/ PollStep

SchedSpec == Init /\ [][SchedNext]_vars /\ WF_vars(PollStep)

\* The process from its start: the hasher configured, once or again, and
\* called, before or after.
ConfigNext ==
    \E p \in Procs :
        /\ \/ SetConfig(p)
           \/ (HasherSteps(p) \/ Return(p)) /\ UNCHANGED GLOBAL_ARGON2
        /\ UNCHANGED <<outbox, written, spent, retired, lastReset, cachedAt>>
        /\ UNCHANGED <<polls, reservation, keyLog, student_id, current_year, valid, attempts, tried, granted>>

ConfigSpec == Boot /\ [][ConfigNext]_vars

\* ------------------------------------------------------------- claims
CodeData(e) == from_str(codeRec[e].json)
TokenData(e) == from_str(tokenRec[e].json)
CodeValid(e) == codeRec[e].live /\ CodeData(e).ok /\ CodeData(e).expires_at > now
TokenValid(e) == tokenRec[e].live /\ TokenData(e).ok /\ TokenData(e).expires_at > now

Answered(p, op, status) ==
    proc[p].pc = "done" /\ proc[p].op = op /\ proc[p].status = status

\* C1: in every reachable state, the states inside forgot_password and
\* verify_code included, no email has both a present, unexpired code record
\* and a present, unexpired token record.
C1_NeverBothValid == \A e \in Emails : ~(CodeValid(e) /\ TokenValid(e))

\* C2: once a Verify of an email has returned 200, no later Verify of that
\* email passes the check until a Request writes a new code.
C2_CodeSingleUse ==
    [][\A p \in Procs :
        (proc[p].pc = "v_get" /\ proc'[p].pc = "v_set")
            => ~spent[proc[p].email]]_vars

\* C3: no two Reset calls that presented the same token both return 200.
C3_TokenSingleUse ==
    \A p, q \in Procs :
        (p # q /\ Answered(p, "reset_password", 200)
               /\ Answered(q, "reset_password", 200))
            => proc[p].token # proc[q].token

\* C4: with requests in sequence, a Verify passes only with the code of the
\* last Request that wrote one (an earlier code is refused, also inside its
\* ten minutes), and the last code, while its record is there and it has
\* not expired, is refused only when Redis fails.
C4_OnlyLatestCodeVerifies ==
    [][\A p \in Procs :
        LET e == proc[p].email
            last == written[e][2]
        IN
        /\ (proc[p].pc = "v_get" /\ proc'[p].pc = "v_set")
                => proc[p].code = last.code
        /\ (/\ proc[p].pc = "v_get"
            /\ proc'[p].pc = "done"
            /\ codeRec[e].live
            /\ proc[p].code = last.code
            /\ proc[p].now < last.at + CODE_TTL_SECONDS)
                => proc'[p].note = "store error"]_vars

\* C4 happens: two codes were written for an email, and a Verify with the
\* first, inside its ten minutes, was answered 400 while the record of the
\* second was there.
C4_Witness ==
    \E p \in Procs :
        LET e == proc[p].email IN
        /\ Answered(p, "verify_code", 400)
        /\ proc[p].note = "mismatch"
        /\ proc[p].code = written[e][1].code
        /\ written[e][2].code # written[e][1].code
        /\ now < written[e][1].at + CODE_TTL_SECONDS
        /\ CodeValid(e)

\* The code a Verify passed on is no longer the one in Redis.
Superseded(p) ==
    /\ codeRec[proc[p].email].live
    /\ CodeData(proc[p].email).val # proc[p].code

\* The token of the Verify in slot p is in Redis, unexpired, and no Request
\* for the email is in flight.
TokenLeft(p) ==
    /\ TokenValid(proc[p].email)
    /\ TokenData(proc[p].email).val = proc[p].token
    /\ \A q \in Procs :
        ~(proc[q].op = "forgot_password" /\ proc[q].email = proc[p].email
            /\ proc[q].pc # "done")

\* C5: a Verify whose code a Request has replaced in the meantime neither
\* deletes the new code record nor ends with its token usable.
C5_SupersessionInterleaved ==
    [][\A p \in Procs :
        (proc[p].pc = "v_del" /\ proc'[p].pc = "done" /\ Superseded(p))
            => /\ codeRec'[proc[p].email] = codeRec[proc[p].email]
               /\ ~TokenLeft(p)]_vars

\* C6: after a Request for an account has returned 200, no Reset passes the
\* token check with a token issued before that Request.
C6_RequestRetiresToken ==
    [][\A p \in Procs :
        (proc[p].pc = "r_get" /\ proc'[p].pc = "r_find")
            => proc[p].token > retired[proc[p].email]]_vars

\* C7: a get_user called while no other request is in flight never answers
\* from the cache with a password hash other than the one in the user table.
C7_CacheFollowsReset ==
    [][\A p \in Procs :
        (/\ AllIdle
         /\ proc'[p].op = "get_user"
         /\ proc'[p].result = "Some")
            => proc'[p].hash = dbUser[proc'[p].email].password]_vars

\* C8: once a Reset (reached through Request and Verify) has returned 200,
\* authenticate finds the user exactly with the new password of the last
\* such Reset, whatever the password was before, and then returns the user.
C8_ResetThenLogin ==
    [][\A p \in Procs :
        /\ (/\ proc[p].pc = "idle"
            /\ proc'[p].op = "authenticate"
            /\ lastReset[proc'[p].email] # ""
            /\ proc'[p].result # "Err")
                => (proc'[p].pc = "a_cache"
                        <=> proc'[p].pw = lastReset[proc'[p].email])
        /\ (proc[p].pc = "a_cache" /\ proc'[p].pc = "done")
                => /\ proc'[p].result = "Some"
                   /\ proc'[p].hash = dbUser[proc[p].email].password]_vars

\* C8 happens: after a Reset to new-pw, authenticate with new-pw returned
\* the user.
C8_Witness ==
    \E p \in Procs :
        /\ proc[p].pc = "done"
        /\ proc[p].op = "authenticate"
        /\ proc[p].result = "Some"
        /\ proc[p].pw = "new-pw"
        /\ lastReset[proc[p].email] = "new-pw"

\* C9: a Reset whose new_password differs from confirm is answered 400 in
\* its first step: no step of it reaches Redis or the user table, and every
\* record, the token record included, stays as it was.
C9_MismatchTouchesNothing ==
    [][\A p \in Procs :
        (/\ proc[p].pc = "idle"
         /\ proc'[p].op = "reset_password"
         /\ proc'[p].pw # proc'[p].confirm)
            => /\ proc'[p].pc = "done"
               /\ proc'[p].status = 400
               /\ proc'[p].body = "New password and confirm password are not same"
               /\ UNCHANGED <<dbUser, codeRec, tokenRec, userCache>>]_vars

\* C9 happens: a Reset with the live token and two different passwords was
\* answered 400 and the token is still valid.
C9_Witness ==
    \E p \in Procs :
        /\ Answered(p, "reset_password", 400)
        /\ proc[p].pw # proc[p].confirm
        /\ TokenValid(proc[p].email)
        /\ TokenData(proc[p].email).val = proc[p].token

\* C10: a Verify that reads the clock ten minutes or more after the last
\* code was issued is answered 400 although its candidate is that code, and
\* neither issues nor stores a token.
C10_ExpiredCodeFails ==
    [][\A p \in Procs :
        LET last == written[proc[p].email][2] IN
        (/\ proc[p].pc = "v_get"
         /\ proc'[p].pc # "v_get"
         /\ last.code # 0
         /\ proc[p].code = last.code
         /\ proc[p].now >= last.at + CODE_TTL_SECONDS)
            => /\ proc'[p].pc = "done"
               /\ proc'[p].status = 400
               /\ proc'[p].body = "Invalid or expired code"
               /\ UNCHANGED <<tokenRec, issued>>]_vars

\* C10 happens: the record of the last code was still in Redis, the
\* candidate was that code, and the Verify was answered 400 as expired.
C10_Witness ==
    \E p \in Procs :
        LET e == proc[p].email IN
        /\ Answered(p, "verify_code", 400)
        /\ proc[p].note = "expired"
        /\ proc[p].code = written[e][2].code
        /\ codeRec[e].live
        /\ CodeData(e).val = proc[p].code

\* C11: a Verify that Redis answers passes the check exactly when the code
\* record of the email is there, its stored expiry is later than the time
\* of the Verify, and its stored code equals the candidate; only a Verify
\* that passed writes a token record or returns a token, and no other step
\* creates one.
C11_TokenOnlyByVerify ==
    [][/\ \A p \in Procs :
            LET e == proc[p].email
                rec == codeRec[e]
                d == from_str(rec.json)
            IN
            /\ (/\ proc[p].pc = "v_get"
                /\ proc'[p].pc # "v_get"
                /\ proc'[p].note # "store error")
                    => (proc'[p].pc = "v_set"
                            <=> /\ rec.live
                                /\ d.ok
                                /\ d.val = proc[p].code
                                /\ d.expires_at > proc[p].now)
            /\ (proc[p].pc = "v_get" /\ proc'[p].pc = "v_set")
                    => proc'[p].token \notin {0, TokenData(e).val}
            /\ (/\ proc[p].pc # "done"
                /\ proc'[p].pc = "done"
                /\ proc'[p].op = "verify_code"
                /\ proc'[p].status = 200)
                    => /\ proc[p].pc = "v_del"
                       /\ proc'[p].token = proc[p].token
                       /\ proc'[p].token # 0
            /\ (/\ proc'[p].pc = "done"
                /\ proc'[p].op = "verify_code"
                /\ proc'[p].status # 200)
                    => proc'[p].token = 0
       /\ \A e \in Emails :
            (tokenRec'[e] # tokenRec[e] /\ tokenRec'[e].live)
                => \E p \in Procs :
                    /\ proc[p].pc = "v_set"
                    /\ proc[p].email = e
                    /\ proc'[p].pc = "v_del"
                    /\ from_str(tokenRec'[e].json).val = proc[p].token]_vars

\* C11 happens: a Verify with the stored, unexpired code returned 200 with
\* the token that is now in the token record.
C11_Witness ==
    \E p \in Procs :
        /\ Answered(p, "verify_code", 200)
        /\ proc[p].token # 0
        /\ TokenValid(proc[p].email)
        /\ TokenData(proc[p].email).val = proc[p].token

SuccessBody == "If the email exists, a reset code has been sent."

\* C12: a Request whose lookup finds no account is answered at once with
\* 200 and the body a successful Request for an account gets; it sends no
\* email and leaves every Redis record and the user table as they were.
C12_NoAccountSameAnswer ==
    [][\A p \in Procs :
        /\ (/\ proc[p].pc = "idle"
            /\ proc'[p].op = "forgot_password"
            /\ ~dbUser[proc'[p].email].exists
            /\ proc'[p].note # "db error")
                => /\ proc'[p].pc = "done"
                   /\ proc'[p].status = 200
                   /\ proc'[p].body = SuccessBody
                   /\ UNCHANGED <<dbUser, codeRec, tokenRec, userCache, outbox>>
        /\ (/\ proc[p].pc = "f_send"
            /\ proc'[p].pc = "done"
            /\ proc'[p].note = "sent")
                => /\ proc'[p].status = 200
                   /\ proc'[p].body = SuccessBody]_vars

\* C12 happens: a Request for an email without account was answered 200
\* while the code record of an account and a sent mail were there to be
\* left alone.
C12_Witness ==
    \E p \in Procs :
        /\ Answered(p, "forgot_password", 200)
        /\ ~dbUser[proc[p].email].exists
        /\ proc[p].body = SuccessBody
        /\ \E e \in Emails : codeRec[e].live
        /\ outbox # {}

\* C13: two Requests whose lookups answered, one for an email with an
\* account and one for an email without, get the same status and body
\* whatever Redis and the mailer did.  The Request without account calls
\* neither, so its run is the run under whatever outcomes the other met.
C13_SameAnswerEitherWay ==
    \A p, q \in Procs :
        (/\ proc[p].pc = "done" /\ proc[p].op = "forgot_password"
         /\ proc[q].pc = "done" /\ proc[q].op = "forgot_password"
         /\ proc[p].note # "db error"
         /\ proc[q].note # "db error"
         /\ dbUser[proc[p].email].exists
         /\ ~dbUser[proc[q].email].exists)
            => /\ proc[p].status = proc[q].status
               /\ proc[p].body = proc[q].body

\* C14: for an account, a Request either stores the code record and goes
\* on, or answers 500 with nothing stored; it then either sends the mail
\* and answers 200, or answers 500 with nothing sent.  So 200 is answered
\* only after the record was stored and the mail sent.
C14_RequestFailsLoudly ==
    [][\A p \in Procs :
        LET e == proc[p].email IN
        /\ (proc[p].pc = "f_set" /\ proc'[p].pc # "f_set")
                => \/ /\ proc'[p].pc = "f_del"
                      /\ codeRec'[e].live
                      /\ codeRec'[e].json = to_string(proc[p].code, proc[p].expires_at)
                   \/ /\ proc'[p].pc = "done"
                      /\ proc'[p].status = 500
                      /\ UNCHANGED <<codeRec, outbox>>
        /\ (proc[p].pc = "f_send" /\ proc'[p].pc # "f_send")
                => /\ proc'[p].pc = "done"
                   /\ \/ /\ proc'[p].status = 200
                         /\ outbox' = outbox \cup {<<e, proc[p].code>>}
                      \/ /\ proc'[p].status = 500
                         /\ outbox' = outbox
        /\ (/\ proc[p].pc # "done"
            /\ proc'[p].pc = "done"
            /\ proc'[p].op = "forgot_password"
            /\ proc'[p].status = 200
            /\ dbUser[proc'[p].email].exists)
                => proc[p].pc = "f_send"
        /\ (proc[p].pc # "f_send" /\ proc'[p].pc = "f_send")
                => proc[p].pc = "f_del"
        /\ (proc[p].pc # "f_del" /\ proc'[p].pc = "f_del")
                => proc[p].pc = "f_set"]_vars

\* C14 happens: the record of a Request for an account was stored, the
\* mail failed, and the answer was 500 with nothing sent.
C14_Witness ==
    \E p \in Procs :
        /\ Answered(p, "forgot_password", 500)
        /\ proc[p].note = "mail error"
        /\ dbUser[proc[p].email].exists
        /\ CodeValid(proc[p].email)
        /\ outbox = {}

\* C15: a Verify that finds no record, a record it cannot parse, another
\* code than the candidate or a passed expiry, or whose read of the record
\* fails in Redis, is answered 400 "Invalid or expired code" in each case,
\* with no token returned, issued or stored.
C15_VerifyFailsClosed ==
    [][\A p \in Procs :
        LET rec == codeRec[proc[p].email]
            d == from_str(rec.json)
        IN
        (/\ proc[p].pc = "v_get"
         /\ proc'[p].pc # "v_get"
         /\ \/ proc'[p].note = "store error"
            \/ ~rec.live
            \/ ~d.ok
            \/ d.val # proc[p].code
            \/ d.expires_at <= proc[p].now)
            => /\ proc'[p].pc = "done"
               /\ proc'[p].status = 400
               /\ proc'[p].body = "Invalid or expired code"
               /\ proc'[p].token = 0
               /\ UNCHANGED <<tokenRec, issued>>]_vars

\* C15 happens: the value under the code key could not be parsed and the
\* Verify was answered 400.
C15_Witness ==
    \E p \in Procs :
        /\ Answered(p, "verify_code", 400)
        /\ proc[p].note = "parse"
        /\ codeRec[proc[p].email].live
        /\ ~CodeData(proc[p].email).ok

\* C16: a Reset whose read of the token record fails in Redis, or whose
\* delete of the token record fails (the record is still there after it),
\* is answered with a 500-class status.
C16_ResetStoreFailureIs500 ==
    [][\A p \in Procs :
        (/\ proc'[p].pc = "done"
         /\ \/ proc[p].pc = "r_get" /\ proc'[p].note = "store error"
            \/ /\ proc[p].pc = "r_deltoken"
               /\ tokenRec'[proc[p].email].live)
            => proc'[p].status >= 500]_vars

\* C17: after user_{id} was written by authenticate (or by get_user), or
\* hit, a get_user less than 60 seconds later that Redis answers returns
\* that user from the cache, without a step that reads the user table, and
\* leaves the entry with 60 seconds to live; a get_user 60 seconds or more
\* after the last write or hit goes to the user table and, the row found,
\* writes the entry with 60 seconds to live unless that write fails.
C17_CacheAside ==
    [][\A p \in Procs :
        LET e == proc'[p].email
            fresh == [live |-> TRUE,
                      json |-> user_to_string(dbUser[e]),
                      ttl |-> now + REDIS_EXPIRY_SECONDS]
        IN
        /\ (/\ proc[p].pc = "idle"
            /\ proc'[p].op = "get_user"
            /\ cachedAt[e] >= 0
            /\ now < cachedAt[e] + REDIS_EXPIRY_SECONDS
            /\ proc'[p].note # "cache error")
                => /\ proc'[p].pc = "done"
                   /\ proc'[p].result = "Some"
                   /\ proc'[p].note = "cache"
                   /\ proc'[p].hash = dbUser[e].password
                   /\ userCache'[e] = fresh
        /\ (/\ proc[p].pc = "idle"
            /\ proc'[p].op = "get_user"
            /\ \/ cachedAt[e] < 0
               \/ now >= cachedAt[e] + REDIS_EXPIRY_SECONDS)
                => proc'[p].pc = "g_find"
        /\ (proc[p].pc = "g_cache" /\ proc'[p].pc = "done")
                => /\ proc'[p].result = "Some"
                   /\ userCache'[e] \in {fresh, userCache[e]}
        /\ (proc[p].pc = "a_cache" /\ proc'[p].pc = "done")
                => /\ proc'[p].result = "Some"
                   /\ userCache'[e] \in {fresh, userCache[e]}]_vars

\* C17 happens: a get_user 60 seconds or more after the entry was first
\* written was still answered from the cache, each hit having renewed the
\* entry, which again has 60 seconds to live.
C17_Witness ==
    \E p \in Procs :
        LET e == proc[p].email IN
        /\ proc[p].pc = "done"
        /\ proc[p].op = "get_user"
        /\ proc[p].note = "cache"
        /\ now >= REDIS_EXPIRY_SECONDS
        /\ cachedAt[e] = now
        /\ userCache[e].live
        /\ userCache[e].ttl = now + REDIS_EXPIRY_SECONDS

\* C19: an authenticate whose lookup answers goes on to return the user
\* exactly when a row with that email exists and its stored hash was made
\* from the given password; otherwise it returns None, for an unknown
\* email and for a wrong password with the same answer, and leaves the
\* cache as it was.  Only the first case ever returns the user.
C19_AuthenticateIff ==
    [][\A p \in Procs :
        LET e == proc'[p].email
            u == dbUser[e]
        IN
        /\ (/\ proc[p].pc = "idle"
            /\ proc'[p].op = "authenticate"
            /\ proc'[p].result # "Err")
                => IF u.exists /\ \E salt \in Salts : u.password = hash(proc'[p].pw, salt)
                   THEN /\ proc'[p].pc = "a_cache"
                        /\ proc'[p].hash = u.password
                   ELSE /\ proc'[p].pc = "done"
                        /\ proc'[p].result = "None"
                        /\ proc'[p].status = 0
                        /\ proc'[p].body = ""
                        /\ proc'[p].hash = NoHash
                        /\ UNCHANGED userCache
        /\ (/\ proc[p].pc # "done"
            /\ proc'[p].pc = "done"
            /\ proc'[p].op = "authenticate"
            /\ proc'[p].result = "Some")
                => /\ proc[p].pc = "a_cache"
                   /\ proc'[p].hash = proc[p].hash
        /\ (proc[p].pc # "a_cache" /\ proc'[p].pc = "a_cache")
                => proc[p].pc = "idle"]_vars

\* C19 happens: after a reset to another password, authenticate with the
\* former password of an existing account returned None and the cache
\* holds nothing for it.
C19_Witness ==
    \E p \in Procs :
        LET e == proc[p].email IN
        /\ proc[p].pc = "done"
        /\ proc[p].op = "authenticate"
        /\ proc[p].result = "None"
        /\ dbUser[e].exists
        /\ proc[p].pw = "old-pw"
        /\ dbUser[e].password.pw = "new-pw"
        /\ ~userCache[e].live

\* C18: a get_user whose cache read fails, or finds a value it cannot
\* parse, goes on to the user table and returns what the table holds for
\* the id; get_user and authenticate return the user they found whether
\* their cache write succeeds or fails; neither ever returns an error that
\* did not come from the user table.
C18_CacheErrorsSwallowed ==
    [][\A p \in Procs :
        LET e == proc'[p].email
            u == dbUser[e]
        IN
        /\ (/\ proc[p].pc = "idle"
            /\ proc'[p].op = "get_user"
            /\ \/ proc'[p].note = "cache error"
               \/ userCache[e].live /\ ~user_from_str(userCache[e].json).ok)
                => proc'[p].pc = "g_find"
        /\ (/\ proc[p].pc = "g_find"
            /\ proc'[p].pc # "g_find"
            /\ proc'[p].note # "db error")
                => IF u.exists
                   THEN proc'[p].pc = "g_cache" /\ proc'[p].hash = u.password
                   ELSE proc'[p].pc = "done" /\ proc'[p].result = "None"
        /\ (proc[p].pc \in {"g_cache", "a_cache"} /\ proc'[p].pc # proc[p].pc)
                => /\ proc'[p].pc = "done"
                   /\ proc'[p].result = "Some"
                   /\ proc'[p].hash = proc[p].hash
        /\ (/\ proc'[p].pc = "done"
            /\ proc'[p].op \in {"get_user", "authenticate"}
            /\ proc'[p].result = "Err")
                => proc'[p].note = "db error"]_vars

\* C18 happens: the cached value could not be parsed, the cache write
\* after the lookup failed too (the unparseable value is still there), and
\* get_user returned the row of the user table.
C18_Witness ==
    \E p \in Procs :
        LET e == proc[p].email IN
        /\ proc[p].pc = "done"
        /\ proc[p].op = "get_user"
        /\ proc[p].note = "parse"
        /\ proc[p].result = "Some"
        /\ proc[p].hash = dbUser[e].password
        /\ userCache[e].live
        /\ ~user_from_str(userCache[e].json).ok

\* C20: verify returns Ok(false) for a well-formed hash that was not made
\* from the password, Ok(true) for one that was, and an error value for a
\* string that is no hash, and for such a string only.
C20_VerifyFalseNotError ==
    \A p \in Procs :
        (proc[p].pc = "done" /\ proc[p].op = "verify")
            => proc[p].result =
                    IF PasswordHash_new(proc[p].hash) = "Err" THEN "Err"
                    ELSE IF proc[p].hash.pw = proc[p].pw THEN "Ok(true)"
                    ELSE "Ok(false)"

\* C21: the hasher is configured exactly once: a call to set_config on a
\* hasher already configured ends fatally, and the configuration hash and
\* verify read never changes once it is set.
C21_ConfiguredOnce ==
    [][/\ \A p \in Procs :
            (/\ proc[p].pc = "idle"
             /\ proc'[p].op = "set_config"
             /\ GLOBAL_ARGON2 # Unset)
            => proc'[p].result = "Panic"
       /\ GLOBAL_ARGON2 # Unset => GLOBAL_ARGON2' = GLOBAL_ARGON2]_vars

C23_TwinRequests ==
    \A p, q \in Procs :
        LET e == proc[p].email IN
        (/\ p # q
         /\ Answered(p, "forgot_password", 200)
         /\ Answered(q, "forgot_password", 200)
         /\ proc[p].note = "sent"
         /\ proc[q].note = "sent"
         /\ proc[q].email = e)
            => /\ codeRec[e].live
               /\ CodeData(e).ok
               /\ CodeData(e).val = written[e][2].code
               /\ ~tokenRec[e].live

\* C24: update_reservation and cancel_reservation write to or delete a
\* reservation only while it belongs to the caller and its status is
\* Pending, review_reservation running beside them or not.
C24_OnlyOwnPending ==
    [][\A p \in Procs :
        (/\ proc[p].pc \in {"u_save", "c_delete"}
         /\ proc'[p].pc = "done"
         /\ reservation' # reservation)
            => /\ reservation.status = "Pending"
               /\ reservation.user_id = proc[p].email]_vars

\* C25: check_student_id answers true exactly for the ids of eight
\* characters that are "0", a two-digit year up to the ROC year modulo 100,
\* two hexadecimal digits, "0" or "1", and two decimal digits making 01 to
\* 99; an id with a sign, a blank or any other character that is no digit
\* in a field is refused.
C25_StudentIdFormat ==
    LET id == student_id
        IsDecimal(c) == c \in {Decimal[i] : i \in 1..10}
        IsHex(c) ==
            c \in {LowerHex[i] : i \in 1..16} \cup {UpperHex[i] : i \in 1..16}
        Value(c) == CHOOSE v \in 0..9 : Decimal[v + 1] = c
        WellFormed ==
            /\ Len(id) = 8
            /\ id[1] = "0"
            /\ IsDecimal(id[2]) /\ IsDecimal(id[3])
            /\ 10 * Value(id[2]) + Value(id[3]) <= (current_year - 1911) % 100
            /\ IsHex(id[4]) /\ IsHex(id[5])
            /\ id[6] \in {"0", "1"}
            /\ IsDecimal(id[7]) /\ IsDecimal(id[8])
            /\ 10 * Value(id[7]) + Value(id[8]) \in 1..99
    IN
    valid # "unchecked" => (valid = "true" <=> WellFormed)

\* C30: a key transaction log is returned at most once: once returned_at
\* is set, returned_at and on_time never change, two return_key calls on
\* the same log running side by side included; and the return that sets
\* them stores the on_time of its body or, without one, whether its
\* returned_at is no later than the deadline.
C30_ReturnedOnce ==
    [][/\ keyLog.returned_at # 0
            => /\ keyLog'.returned_at = keyLog.returned_at
               /\ keyLog'.on_time = keyLog.on_time
       /\ \A p \in Procs :
            (/\ proc[p].pc = "k_update"
             /\ proc'[p].status = 200
             /\ keyLog.returned_at = 0)
                => /\ keyLog'.returned_at = proc[p].at
                   /\ keyLog'.on_time =
                        IF proc[p].on_time = "None"
                        THEN proc[p].at <= keyLog.deadline
                        ELSE proc[p].on_time = "true"]_vars

\* C27: no step of a Verify that ends without 200 changes the code record
\* or writes a token record, so a Verify with the stored code, made while
\* the record is there and unexpired and Redis answers, passes the check
\* however many Verifies have failed before it.
C27_FailedVerifyKeepsStore ==
    [][\A p \in Procs :
        LET e == proc[p].email
            d == from_str(codeRec[e].json)
        IN
        /\ (\/ proc[p].pc = "idle" /\ proc'[p].op = "verify_code"
            \/ proc[p].pc = "v_get" /\ proc'[p].pc # "v_get"
            \/ failed(p))
                => UNCHANGED <<codeRec, tokenRec>>
        /\ (/\ proc[p].pc = "v_get"
            /\ proc'[p].pc # "v_get"
            /\ proc'[p].note # "store error"
            /\ codeRec[e].live
            /\ d.ok
            /\ d.val = proc[p].code
            /\ d.expires_at > proc[p].now)
                => proc'[p].pc = "v_set"]_vars

\* C27 happens: after MaxAttempts failed Verifies since the code was
\* written, a Verify with that code returned 200.
C27_Witness ==
    \E p \in Procs :
        /\ Answered(p, "verify_code", 200)
        /\ attempts[proc[p].email] = MaxAttempts

\* C28: no step of a Reset that ends without 200 (400 on the token, 404,
\* 500 from the hasher or from the update) changes the user's password
\* hash, the cached user or the token record, so a later Reset with the
\* token of the record, made while it is unexpired and Redis answers,
\* passes the token check.
C28_FailedResetKeepsState ==
    [][\A p \in Procs :
        LET e == proc[p].email
            d == from_str(tokenRec[e].json)
        IN
        /\ (\/ proc[p].pc = "idle" /\ proc'[p].op = "reset_password"
            \/ proc[p].pc \in {"r_get", "r_find", "r_hash"}
                    /\ proc'[p].pc # proc[p].pc
            \/ proc[p].pc = "r_update" /\ proc'[p].pc = "done")
                => UNCHANGED <<dbUser, userCache, tokenRec>>
        /\ (/\ proc[p].pc = "r_get"
            /\ proc'[p].pc # "r_get"
            /\ proc'[p].note # "store error"
            /\ tokenRec[e].live
            /\ d.ok
            /\ d.val = proc[p].token
            /\ d.expires_at > proc[p].now)
                => proc'[p].pc = "r_find"]_vars

\* C28 happens: a Reset returned 200 with the token of an earlier Reset
\* that had passed the token check and failed.
C28_Witness ==
    \E p \in Procs :
        /\ Answered(p, "reset_password", 200)
        /\ proc[p].token = tried[proc[p].email]

\* C29: a Request answered 500 because its code write failed has sent no
\* mail and changed neither the code record nor the token record; a
\* Request answered 500 because its mail failed has sent none either and
\* leaves the code record it wrote in Redis, and it reached the send only
\* through the step that tries to delete the token record.
C29_FailedRequest ==
    [][\A p \in Procs :
        LET e == proc[p].email IN
        /\ (proc[p].pc = "idle" /\ proc'[p].op = "forgot_password")
                => UNCHANGED <<codeRec, tokenRec, outbox>>
        /\ (/\ proc[p].pc = "f_set"
            /\ proc'[p].pc = "done")
                => /\ proc'[p].status = 500
                   /\ proc'[p].body = "Failed to create reset record"
                   /\ UNCHANGED <<codeRec, tokenRec, outbox>>
        /\ (proc[p].pc # "f_send" /\ proc'[p].pc = "f_send")
                => /\ proc[p].pc = "f_del"
                   /\ tokenRec' \in {tokenRec, del(tokenRec, e)}
                   /\ UNCHANGED <<codeRec, outbox>>
        /\ (/\ proc[p].pc = "f_send"
            /\ proc'[p].pc = "done"
            /\ proc'[p].status = 500)
                => /\ proc'[p].body = "Failed to send email"
                   /\ UNCHANGED <<codeRec, tokenRec, outbox>>
                   /\ codeRec[e].live
                        => /\ CodeData(e).ok
                           /\ CodeData(e).val = proc[p].code]_vars

\* C29 happens: no mail has ever gone out, the Request was answered 500 for
\* its mail, and a Verify with the code it had written returned 200.
C29_Witness ==
    \E p \in Procs :
        /\ Answered(p, "verify_code", 200)
        /\ outbox = {}

\* C26: the stored password hash of an existing user changes only in the
\* update of a reset_password whose new_password equals confirm and whose
\* token was that of the user's token record, there and unexpired, or in
\* the update of an update_password whose new_password equals confirm and
\* whose old_password verified against the session user's hash; no step
\* of forgot_password, verify_code, login or any other call changes it.
C26_OnlyResetOrUpdate ==
    [][\A e \in Emails :
        (dbUser[e].exists /\ dbUser'[e].password # dbUser[e].password)
            => \E p \in Procs :
                /\ proc[p].email = e
                /\ proc'[p].pc # proc[p].pc
                /\ proc[p].pw = proc[p].confirm
                /\ dbUser'[e].password.pw = proc[p].pw
                /\ \/ /\ proc[p].op = "reset_password"
                      /\ proc[p].pc = "r_update"
                      /\ granted[p] = "token"
                   \/ /\ proc[p].op = "update_password"
                      /\ proc[p].pc = "p_update"
                      /\ granted[p] = "password"]_vars

\* C26 happens: the password was reset, and an update_password with the
\* password of that reset as old_password then changed it to another.
C26_Witness ==
    \E p \in Procs :
        LET e == proc[p].email IN
        /\ Answered(p, "update_password", 200)
        /\ lastReset[e] # ""
        /\ proc[p].old = lastReset[e]
        /\ proc[p].pw # proc[p].old
        /\ dbUser[e].password.pw = proc[p].pw

====
